---- MODULE Spec2Model ----
(***************************************************************************)
(* ExplainX: the call interceptor (explainx.py), the trace store and the  *)
(* explanation chain (llm.py), and the request handlers (main.py).        *)
(*                                                                         *)
(* Python values are modelled as strings; None is the string "None".      *)
(* A trace record keeps the fields function, inputs, output, explanation  *)
(* of the dict built in explainx.py:55-65, plus two ghost fields: id, the *)
(* number of the invocation that produced it (invocations are numbered in *)
(* the order in which they are invoked), and req, the request on whose    *)
(* behalf the call ran ("-" outside the server).  A third ghost field,    *)
(* writes, counts the assignments to the explanation field.               *)
(***************************************************************************)
EXTENDS Integers, Sequences, FiniteSets, TLC

VARIABLES
    TRACE,      \* explainx.TRACE, the global trace store
    stack,      \* wrapper invocations in progress, innermost last
    exc,        \* the exception in flight, or None
    nextId,     \* number of wrapper invocations so far
    parents,    \* ghost: parents[i] = id of the invocation that called i (0: the driver)
    win,        \* ghost: invocations since the store was last reset
    drained,    \* ghost: the window closed by the latest pop_traces
    lastPop,    \* the list returned by the latest pop_traces
    prevPop,    \* the list returned by the pop_traces before it
    popStreak,  \* number of pop_traces calls with no other operation in between (capped at 2)
    last,       \* ghost: the latest finished wrapper invocation
    lists,      \* SpecThreads: the list objects ever bound to the global name TRACE
    traceRef,   \* SpecThreads: the list object the global name TRACE is bound to now
    tpc,        \* SpecThreads: where each thread is
    tref,       \* SpecThreads: the list object a thread loaded from the name TRACE
    tcopy,      \* SpecThreads: the local variable traces of a thread inside pop_traces
    returns,    \* ghost: the lists returned by the pop_traces calls so far
    appended,   \* ghost: ids of the records whose TRACE.append call has completed
    deepseekKey,\* llm.DEEPSEEK_API_KEY is set (read from the environment at import)
    env,        \* the outcomes each remote provider can have in this run
    kind,       \* per task: what the coroutine runs
    pc,         \* per task: where the coroutine is suspended
    input,      \* per task: the request payload
    traces,     \* per task: the list being explained (the handler's local traces)
    idx,        \* per task: index in traces of the record being explained
    log,        \* ghost, per task: provider attempts for the record being explained
    lastLog,    \* ghost, per task: provider attempts for the record explained last
    attempts,   \* ghost, per task: remote provider attempts made by the task
    startStore, \* ghost, per task: TRACE when the explanation pass started
    ownIds,     \* ghost, per task: ids of the records made on its behalf before its pop
    calls,      \* per task: number of wrapper invocations made on its behalf
    op,         \* SpecApply: the function under application
    arg,        \* SpecApply: its arguments
    out,        \* SpecApply: what the application gave
    phase,      \* SpecApply: "input" before the application, "output" after it
    now         \* SpecApply: what datetime.now() returns, in ms

callVars == <<stack, exc, nextId, parents, win, drained, lastPop, prevPop, popStreak, last>>
thrVars == <<lists, traceRef, tpc, tref, tcopy, returns, appended>>
taskVars == <<deepseekKey, env, kind, pc, input, traces, idx, log, lastLog, attempts,
              startStore, ownIds, calls>>
applyVars == <<op, arg, out, phase, now>>
vars == <<TRACE, callVars, thrVars, taskVars, applyVars>>

None == "None"

\* Largest number of wrapper invocations in one behaviour of SpecCalls.
MaxCalls == 7
\* Largest numbers of wrapper appends and of pop_traces calls in SpecThreads.
MaxAppends == 2
MaxPops == 2

Threads == {"t1", "t2"}
\* Longest batch handed to explain_traces in SpecExplain.
MaxBatch == 2

Tasks == {"a", "b"}

\* SpecApply: longest parameter list and longest positional argument list.
MaxParams == 3
MaxArgs == 3
\* SpecApply: latest reading of the clock, longest list handed to build_explain_file.
MaxClock == 2
MaxRender == 2
\* SpecApply: most store operations that follow the start of a pop_traces run.
MaxStoreOps == 4

Min(a, b) == IF a <= b THEN a ELSE b

(***************************************************************************)
(* The wrapped callables of the repository that the model invokes.        *)
(***************************************************************************)
Params(fn) ==
    CASE fn = "process_applications"        -> <<"applications", "jd">>
      [] fn = "validate_users"              -> <<"apps">>
      [] fn = "calculate_experience_scores" -> <<"apps", "min_exp">>
      [] fn = "calculate_domain_scores"     -> <<"apps", "target_domain">>
      [] fn = "calculate_salary_scores"     -> <<"apps", "jd_salary">>
      [] fn = "calculate_cgpa_scores"       -> <<"apps">>
      [] fn = "check_stock"                 -> <<"product_id", "requested_quantity">>
      [] fn = "validate_price"              -> <<"price">>
      [] fn = "validate_user_type"          -> <<"user_type">>
      [] fn = "validate_quantity"           -> <<"quantity", "max_stock">>
      [] fn = "get_product_details"         -> <<"product_id">>
      [] fn = "reserve_stock"               -> <<"product_id", "quantity">>
      [] fn = "calculate_base_discount"     -> <<"price", "user_tier">>
      [] fn = "apply_volume_discount"       -> <<"price", "quantity">>
      [] fn = "apply_promo_code"            -> <<"price", "promo_code">>
      [] fn = "calculate_sales_tax"         -> <<"amount", "state">>
      [] fn = "calculate_shipping_cost"     -> <<"subtotal", "weight_kg", "express">>
      [] fn = "calculate_final_total"       ->
            <<"subtotal", "tax_amount", "shipping_cost", "tip_percent">>
      [] fn = "generate_explanation_prompt" -> <<"trace">>
      [] fn = "sqrt"                        -> <<"x">>
      [] OTHER                              -> <<>>

NoKwargs == <<>>

\* A job description: jd["salary_budget"] is "0" or positive.
JdSalary(jd) == IF jd = "jd_budget_0" THEN "0" ELSE "50000"
JdMinExp(jd) == "2"
JdDomain(jd) == "backend"

Call(fn, args, kwargs) == [function |-> fn, args |-> args, kwargs |-> kwargs]

\* The instrumented calls the body of fn makes, in order (resume.py:180-193).
Children(fn, inputs) ==
    IF fn = "process_applications"
    THEN << Call("validate_users", <<inputs.applications>>, NoKwargs),
            Call("calculate_experience_scores",
                 <<inputs.applications, JdMinExp(inputs.jd)>>, NoKwargs),
            Call("calculate_domain_scores",
                 <<inputs.applications, JdDomain(inputs.jd)>>, NoKwargs),
            Call("calculate_salary_scores",
                 <<inputs.applications, JdSalary(inputs.jd)>>, NoKwargs),
            Call("calculate_cgpa_scores", <<inputs.applications>>, NoKwargs) >>
    ELSE <<>>

\* The exception the body of fn raises on these inputs, or None.
\* "apps" stands for a non-empty list of applicants expecting a positive salary, so
\* (expected - jd_salary) / jd_salary divides by zero when jd_salary is 0.
Raises(fn, inputs) ==
    IF fn = "calculate_salary_scores" /\ inputs.jd_salary = "0"
    THEN "ZeroDivisionError"
    ELSE None

\* validate_user_type: user_type_lower in valid_types
UserValid(user_type) == user_type \in {"premium", "standard", "guest"}
\* product_id_upper in INVENTORY
ProductFound(product_id) == product_id \in {"LAPTOP-001"}
\* check_stock: requested_quantity <= current_stock (LAPTOP-001 holds 25)
StockAvailable(product_id, quantity) == ProductFound(product_id) /\ quantity \in {"5"}

\* isinstance(price, (int, float))
JsonNumber(v) == v \in {"100", "5"}

\* The value the body of fn returns.
Result(fn, inputs) ==
    CASE fn = "check_stock" ->
            IF StockAvailable(inputs.product_id, inputs.requested_quantity)
            THEN "{'available': True}"
            ELSE "{'available': False}"
      [] fn = "validate_user_type" ->
            IF UserValid(inputs.user_type) THEN "{'valid': True}" ELSE "{'valid': False}"
      [] fn = "get_product_details" ->
            IF ProductFound(inputs.product_id) THEN "{'found': True}" ELSE "{'found': False}"
      [] fn = "reserve_stock" ->
            IF StockAvailable(inputs.product_id, inputs.quantity)
            THEN "{'success': True}"
            ELSE "{'success': False}"
      [] fn = "validate_price" ->
            IF JsonNumber(inputs.price)
            THEN "{'valid': True}"
            ELSE "{'valid': False, 'original_price': Decimal('9.99')}"
      [] fn = "process_applications" -> "top_candidates"
      [] fn = "validate_users"       -> "valid_flags"
      [] OTHER                       -> "scores"

\* The calls a driver (a handler, a script) makes at top level.
DriverCalls ==
    { Call("process_applications", <<"apps", jd>>, NoKwargs) :
          jd \in {"jd_budget_0", "jd_budget_50000"} }
    \cup
    { Call("check_stock", <<>>, [product_id |-> "LAPTOP-001", requested_quantity |-> q]) :
          q \in {"5", "30"} }

(***************************************************************************)
(* explainX.wrapper                                                        *)
(***************************************************************************)
\* A binding in which a positional argument wins over a named one.
BindInputsPositionalFirst(params, args, kwargs) ==
    LET n   == Min(Len(args), Len(params))
        pos == {params[i] : i \in 1..n}
    IN  [k \in pos \cup DOMAIN kwargs |->
            IF k \in pos
            THEN args[CHOOSE i \in 1..n : params[i] = k]
            ELSE kwargs[k]]

\* inputs = {}; positional args to the first parameters; inputs.update(kwargs)
BindInputs(params, args, kwargs) ==
    LET n   == Min(Len(args), Len(params))
        pos == {params[i] : i \in 1..n}
    IN  [k \in pos \cup DOMAIN kwargs |->
            IF k \in DOMAIN kwargs
            THEN kwargs[k]
            ELSE args[CHOOSE i \in 1..n : params[i] = k]]

\* The dict appended to TRACE.
TraceRecord(id, fn, inputs, result, req) ==
    [id |-> id, function |-> fn, inputs |-> inputs, output |-> result,
     explanation |-> None, req |-> req, writes |-> 0]

\* A wrapper that puts the record at the head of the store.
WrapperOnReturnFirst(store, id, fn, inputs, result, req) ==
    [store |-> <<TraceRecord(id, fn, inputs, result, req)>> \o store,
     ret   |-> result]

\* The wrapper after fn returned result: append the record, return result.
WrapperOnReturn(store, id, fn, inputs, result, req) ==
    [store |-> Append(store, TraceRecord(id, fn, inputs, result, req)),
     ret   |-> result]

\* A wrapper that catches the exception of fn and returns.
WrapperOnRaiseSwallow(store, e) == [store |-> store, exc |-> None]

\* The wrapper when fn raised e: nothing is caught, nothing is appended.
WrapperOnRaise(store, e) == [store |-> store, exc |-> e]

\* A pop_traces that returns the copy and leaves TRACE as it is.
PopTracesKeep(store) == [returned |-> store, store |-> store]

\* pop_traces: traces = TRACE.copy(); TRACE = []; return traces
PopTraces(store) == [returned |-> store, store |-> <<>>]

\* A get_traces that returns the store's own list.
GetTracesAlias(heap, ref) == [heap |-> heap, ref |-> ref]

\* get_traces: return TRACE.copy().  heap holds the list objects, ref names the
\* one TRACE is bound to; the copy is a new list object.
GetTraces(heap, ref) == [heap |-> Append(heap, heap[ref]), ref |-> Len(heap) + 1]

\* clear_traces: TRACE = []
ClearTraces(store) == <<>>

(***************************************************************************)
(* SpecCalls: one thread calling wrapped callables and the store           *)
(***************************************************************************)
EmptyWindow == [began |-> <<>>, done |-> <<>>, raised |-> FALSE]
NoLast == [id |-> 0, function |-> None, outcome |-> None, before |-> <<>>,
           after |-> <<>>, result |-> None, ret |-> None, raised |-> None,
           exc |-> None, calls |-> 0, args |-> <<>>, kwargs |-> <<>>]

InitThreads ==
    /\ lists = << <<>> >>
    /\ traceRef = 1
    /\ tpc = [t \in Threads |-> "idle"]
    /\ tref = [t \in Threads |-> 0]
    /\ tcopy = [t \in Threads |-> <<>>]
    /\ returns = <<>>
    /\ appended = {}

InitCalls ==
    /\ stack = <<>>
    /\ exc = None
    /\ nextId = 0
    /\ parents = <<>>
    /\ win = EmptyWindow
    /\ drained = EmptyWindow
    /\ lastPop = <<>>
    /\ prevPop = <<>>
    /\ popStreak = 0
    /\ last = NoLast

Top == stack[Len(stack)]

\* wrapper lines 27-43: bind the inputs, then call fn once.
Enter(c) ==
    /\ nextId < MaxCalls
    /\ nextId' = nextId + 1
    /\ parents' = Append(parents, IF stack = <<>> THEN 0 ELSE Top.id)
    /\ win' = [win EXCEPT !.began = Append(@, nextId + 1)]
    /\ popStreak' = 0
    /\ UNCHANGED <<TRACE, exc, drained, lastPop, prevPop, last>>

Frame(c) ==
    [id |-> nextId + 1, function |-> c.function,
     inputs |-> BindInputs(Params(c.function), c.args, c.kwargs),
     args |-> c.args, kwargs |-> c.kwargs,
     next |-> 1, entry |-> TRACE, calls |-> 1]

\* A driver calls a wrapped callable.
DriverCall ==
    /\ UNCHANGED <<thrVars, taskVars, applyVars>>
    /\ stack = <<>>
    /\ exc = None
    /\ \E c \in DriverCalls :
          /\ Enter(c)
          /\ stack' = <<Frame(c)>>

\* The body of the running callable makes its next instrumented call.
NestedCall ==
    /\ UNCHANGED <<thrVars, taskVars, applyVars>>
    /\ stack # <<>>
    /\ exc = None
    /\ LET kids == Children(Top.function, Top.inputs)
       IN  /\ Top.next <= Len(kids)
           /\ Enter(kids[Top.next])
           /\ stack' = Append([stack EXCEPT ![Len(stack)].next = @ + 1],
                              Frame(kids[Top.next]))

BodyDone == Top.next > Len(Children(Top.function, Top.inputs))

\* fn returns; wrapper lines 45-67.
FnReturn ==
    /\ UNCHANGED <<thrVars, taskVars, applyVars>>
    /\ stack # <<>>
    /\ exc = None
    /\ BodyDone
    /\ Raises(Top.function, Top.inputs) = None
    /\ LET result == Result(Top.function, Top.inputs)
           w == WrapperOnReturn(TRACE, Top.id, Top.function, Top.inputs, result, "-")
       IN  /\ TRACE' = w.store
           /\ last' = [id |-> Top.id, function |-> Top.function,
                       outcome |-> "returned", before |-> Top.entry,
                       after |-> w.store, result |-> result, ret |-> w.ret,
                       raised |-> None, exc |-> None, calls |-> Top.calls,
                       args |-> Top.args, kwargs |-> Top.kwargs]
    /\ win' = [win EXCEPT !.done = Append(@, Top.id)]
    /\ stack' = SubSeq(stack, 1, Len(stack) - 1)
    /\ UNCHANGED <<exc, nextId, parents, drained, lastPop, prevPop, popStreak>>

\* fn raises in its own body; wrapper line 43 lets the exception through.
FnRaise ==
    /\ UNCHANGED <<thrVars, taskVars, applyVars>>
    /\ stack # <<>>
    /\ exc = None
    /\ BodyDone
    /\ Raises(Top.function, Top.inputs) # None
    /\ LET e == Raises(Top.function, Top.inputs)
           w == WrapperOnRaise(TRACE, e)
       IN  /\ TRACE' = w.store
           /\ exc' = w.exc
           /\ last' = [id |-> Top.id, function |-> Top.function,
                       outcome |-> "raised", before |-> Top.entry,
                       after |-> w.store, result |-> None, ret |-> None,
                       raised |-> e, exc |-> w.exc, calls |-> Top.calls,
                       args |-> Top.args, kwargs |-> Top.kwargs]
    /\ win' = [win EXCEPT !.raised = TRUE]
    /\ stack' = SubSeq(stack, 1, Len(stack) - 1)
    /\ UNCHANGED <<nextId, parents, drained, lastPop, prevPop, popStreak>>

\* An instrumented call made by the body of fn raised and the body does not catch
\* it (resume.py:180-193 has no try): fn raises the same exception.
Unwind ==
    /\ UNCHANGED <<thrVars, taskVars, applyVars>>
    /\ stack # <<>>
    /\ exc # None
    /\ LET w == WrapperOnRaise(TRACE, exc)
       IN  /\ TRACE' = w.store
           /\ exc' = w.exc
           /\ last' = [id |-> Top.id, function |-> Top.function,
                       outcome |-> "raised", before |-> Top.entry,
                       after |-> w.store, result |-> None, ret |-> None,
                       raised |-> exc, exc |-> w.exc, calls |-> Top.calls,
                       args |-> Top.args, kwargs |-> Top.kwargs]
    /\ stack' = SubSeq(stack, 1, Len(stack) - 1)
    /\ UNCHANGED <<nextId, parents, win, drained, lastPop, prevPop, popStreak>>

\* The driver handles the exception that reached it.
DriverCatch ==
    /\ UNCHANGED <<thrVars, taskVars, applyVars>>
    /\ stack = <<>>
    /\ exc # None
    /\ exc' = None
    /\ popStreak' = 0
    /\ UNCHANGED <<TRACE, stack, nextId, parents, win, drained, lastPop, prevPop, last>>

\* The driver drains the store.
DriverPop ==
    /\ UNCHANGED <<thrVars, taskVars, applyVars>>
    /\ stack = <<>>
    /\ exc = None
    /\ LET p == PopTraces(TRACE)
       IN  /\ lastPop' = p.returned
           /\ TRACE' = p.store
    /\ prevPop' = lastPop
    /\ drained' = win
    /\ win' = EmptyWindow
    /\ popStreak' = Min(popStreak + 1, 2)
    /\ UNCHANGED <<stack, exc, nextId, parents, last>>

\* The driver clears the store.
DriverClear ==
    /\ UNCHANGED <<thrVars, taskVars, applyVars>>
    /\ stack = <<>>
    /\ exc = None
    /\ TRACE' = ClearTraces(TRACE)
    /\ win' = EmptyWindow
    /\ popStreak' = 0
    /\ UNCHANGED <<stack, exc, nextId, parents, drained, lastPop, prevPop, last>>

NextCalls ==
    \/ DriverCall
    \/ NestedCall
    \/ FnReturn
    \/ FnRaise
    \/ Unwind
    \/ DriverCatch
    \/ DriverPop
    \/ DriverClear

(***************************************************************************)
(* SpecThreads: threads calling wrapped callables and pop_traces with no   *)
(* lock.  explainx.py takes none, so a thread switch can fall between the  *)
(* load of the global name TRACE and the append call on that list object   *)
(* (line 55), and between TRACE.copy() and TRACE = [] (lines 78-79).       *)
(***************************************************************************)
CallsIdle ==
    UNCHANGED <<callVars, taskVars, applyVars>>

\* wrapper line 55, first half: the name TRACE is loaded.
AppendLoad(t) ==
    /\ tpc[t] = "idle"
    /\ Cardinality(appended) + Cardinality({u \in Threads : tpc[u] = "append"}) < MaxAppends
    /\ tref' = [tref EXCEPT ![t] = traceRef]
    /\ tpc' = [tpc EXCEPT ![t] = "append"]
    /\ UNCHANGED <<TRACE, lists, traceRef, tcopy, returns, appended>>
    /\ CallsIdle

\* wrapper line 55, second half: append is called on the list loaded.
AppendCall(t) ==
    /\ tpc[t] = "append"
    /\ LET id == Cardinality(appended) + 1
           c  == Call("check_stock", <<>>,
                      [product_id |-> "LAPTOP-001", requested_quantity |-> "5"])
           inputs == BindInputs(Params(c.function), c.args, c.kwargs)
           w  == WrapperOnReturn(lists[tref[t]], id, c.function, inputs,
                                 Result(c.function, inputs), t)
       IN  /\ lists' = [lists EXCEPT ![tref[t]] = w.store]
           /\ appended' = appended \cup {id}
    /\ TRACE' = lists'[traceRef]
    /\ tpc' = [tpc EXCEPT ![t] = "idle"]
    /\ UNCHANGED <<traceRef, tref, tcopy, returns>>
    /\ CallsIdle

\* pop_traces line 78: traces = TRACE.copy()
PopCopy(t) ==
    /\ tpc[t] = "idle"
    /\ Len(returns) + Cardinality({u \in Threads : tpc[u] = "pop"}) < MaxPops
    /\ tcopy' = [tcopy EXCEPT ![t] = PopTraces(lists[traceRef]).returned]
    /\ tpc' = [tpc EXCEPT ![t] = "pop"]
    /\ UNCHANGED <<TRACE, lists, traceRef, tref, returns, appended>>
    /\ CallsIdle

\* pop_traces lines 79-80: TRACE = []; return traces
PopRebind(t) ==
    /\ tpc[t] = "pop"
    /\ lists' = Append(lists, PopTraces(lists[traceRef]).store)
    /\ traceRef' = Len(lists) + 1
    /\ TRACE' = lists'[traceRef']
    /\ returns' = Append(returns, tcopy[t])
    /\ tcopy' = [tcopy EXCEPT ![t] = <<>>]
    /\ tpc' = [tpc EXCEPT ![t] = "idle"]
    /\ UNCHANGED <<tref, appended>>
    /\ CallsIdle

NextThreads ==
    \/ \E t \in Threads : AppendLoad(t)
    \/ \E t \in Threads : AppendCall(t)
    \/ \E t \in Threads : PopCopy(t)
    \/ \E t \in Threads : PopRebind(t)


IdSet(s) == {s[i].id : i \in 1..Len(s)}

\* C3: no append is lost: every appended record is in a list that a pop_traces
\* returned (or holds in its local copy and is about to return), or is still
\* in the store.
C3_NoAppendLost ==
    \A id \in appended :
        \/ \E i \in 1..Len(returns) : id \in IdSet(returns[i])
        \/ \E t \in Threads : tpc[t] = "pop" /\ id \in IdSet(tcopy[t])
        \/ id \in IdSet(lists[traceRef])

\* C4: each record is returned by at most one pop_traces.
C4_PopsDisjoint ==
    \A i, j \in 1..Len(returns) :
        i # j => IdSet(returns[i]) \cap IdSet(returns[j]) = {}

(***************************************************************************)
(* llm.py: the explanation chain                                           *)
(***************************************************************************)
\* Values json.dumps rejects with TypeError.  validate_price tests
\* isinstance(price, (int, float)) itself, so it expects callers that pass
\* something else.
NonJsonValues == {"Decimal('9.99')", "{'valid': False, 'original_price': Decimal('9.99')}"}
JsonSerializable(v) == v \notin NonJsonValues

\* generate_explanation_prompt: json.dumps(trace['inputs'], indent=2), then
\* json.dumps(trace['output']); the outputs modelled are dicts and lists.
PromptRaises(trace) ==
    IF \/ \E k \in DOMAIN trace.inputs : ~JsonSerializable(trace.inputs[k])
       \/ ~JsonSerializable(trace.output)
    THEN "TypeError"
    ELSE None

\* The argument of generate_explanation_prompt is the record itself (the same dict
\* object); the model names it by the id of the record.
TraceRef(trace) == "trace#" \o ToString(trace.id)

\* prompt = generate_explanation_prompt(trace): the callable is wrapped by
\* @explainX(), so the call goes through the wrapper.
PromptCall(store, trace, id, req) ==
    LET fn     == "generate_explanation_prompt"
        inputs == BindInputs(Params(fn), <<TraceRef(trace)>>, NoKwargs)
        e      == PromptRaises(trace)
    IN  IF e # None
        THEN [store |-> WrapperOnRaise(store, e).store,
              exc   |-> WrapperOnRaise(store, e).exc]
        ELSE [store |-> WrapperOnReturn(store, id, fn, inputs, "prompt", req).store,
              exc   |-> None]

\* What can happen to one post to a remote provider.  malformed_body: the body is
\* not JSON, or choices[0].message.content is missing, null or another falsy
\* value.  content_not_text: status 200 and content is a truthy JSON value that
\* is not a string (42, a list).  content_empty: status 200 and content is "".
Failures == {"transport_error", "timeout", "status_not_200", "malformed_body"}
Outcomes == Failures \cup {"content_not_text", "content_empty", "content_text"}

ProviderText(provider) ==
    IF provider = "deepseek" THEN "deepseek text" ELSE "openrouter text"
ProviderNonText(provider) ==
    IF provider = "deepseek" THEN "deepseek non-text" ELSE "openrouter non-text"
NonTextValues == {"deepseek non-text", "openrouter non-text"}

\* call_deepseek / call_openrouter once the post has ended with outcome o: every
\* exception is caught and gives None, a status other than 200 gives None, and
\* otherwise data["choices"][0]["message"]["content"] is returned as it is.
ProviderReturn(provider, o) ==
    CASE o = "content_text"     -> ProviderText(provider)
      [] o = "content_empty"    -> ""
      [] o = "content_not_text" -> ProviderNonText(provider)
      [] OTHER                  -> None

\* Python truth of an explanation value.
Truthy(v) == v # None /\ v # ""

\* A chain that goes on only when the provider returned None.
NeedsNextOnlyNone(explanation) == explanation = None

\* explain_single_trace, `if not explanation:` (twice)
NeedsNext(explanation) == ~Truthy(explanation)

\* The keys of inputs in the order the dict holds them (the order of the
\* signature for the calls of this model).
InputKeys(trace) ==
    SelectSeq(Params(trace.function), LAMBDA k : k \in DOMAIN trace.inputs)

\* f"{duration_ms:.2f}" of a whole number of ms
Fmt2f(ms) == ToString(ms) \o ".00"

\* ", ".join([f"{k}={v}" for k, v in inputs.items()])
RECURSIVE JoinPairs(_, _, _)
JoinPairs(inputs, keys, i) ==
    IF i > Len(keys)
    THEN ""
    ELSE (IF i > 1 THEN ", " ELSE "") \o keys[i] \o "=" \o inputs[keys[i]]
         \o JoinPairs(inputs, keys, i + 1)

\* trace.get('duration_ms', 0)
DurationOf(trace) == IF "duration_ms" \in DOMAIN trace THEN trace.duration_ms ELSE 0

\* A fallback text that reports the time of the clock.
GenerateFallbackClock(trace) ==
    "The function '" \o trace.function \o "' was called with inputs: "
    \o JoinPairs(trace.inputs, InputKeys(trace), 1)
    \o ". It processed these values and returned: " \o trace.output
    \o ". Execution took " \o Fmt2f(now) \o "ms."

\* generate_fallback_explanation: built from the record's own fields.
GenerateFallback(trace) ==
    "The function '" \o trace.function \o "' was called with inputs: "
    \o JoinPairs(trace.inputs, InputKeys(trace), 1)
    \o ". It processed these values and returned: " \o trace.output
    \o ". Execution took " \o Fmt2f(DurationOf(trace)) \o "ms."

\* An explain_single_trace that leaves a record alone once it is explained.
ExplainSingleTraceKeep(trace, ds, or) ==
    LET e1 == IF ds = "no_key" THEN None ELSE ProviderReturn("deepseek", ds)
        e2 == IF NeedsNext(e1) THEN ProviderReturn("openrouter", or) ELSE e1
        e3 == IF NeedsNext(e2) THEN GenerateFallback(trace) ELSE e2
    IN  IF trace.explanation # None THEN trace ELSE [trace EXCEPT !.explanation = e3]

\* explain_single_trace from the prompt on (llm.py:137-148), given what the post
\* to each provider ends with (ds = "no_key": DEEPSEEK_API_KEY is empty).
ExplainSingleTrace(trace, ds, or) ==
    LET e1 == IF ds = "no_key" THEN None ELSE ProviderReturn("deepseek", ds)
        e2 == IF NeedsNext(e1) THEN ProviderReturn("openrouter", or) ELSE e1
        e3 == IF NeedsNext(e2) THEN GenerateFallback(trace) ELSE e2
    IN  [trace EXCEPT !.explanation = e3]

IsStr(v) == v # None /\ v \notin NonTextValues

\* explain_traces_sync: every record gets the fallback explanation.
ExplainTracesSync(tr) ==
    [i \in 1..Len(tr) |-> [tr[i] EXCEPT !.explanation = GenerateFallback(tr[i]),
                                        !.writes = @ + 1]]

\* trace.get('explanation', 'No explanation available'): the default is taken
\* only when the record has no such key.
ExplanationOf(trace) ==
    IF "explanation" \in DOMAIN trace
    THEN trace.explanation
    ELSE "No explanation available"

\* build_explain_file: explanation.split('\n') needs a str.
BuildRaises(tr) == \E i \in 1..Len(tr) : ~IsStr(ExplanationOf(tr[i]))

NoLog == [ds |-> "not_called", or |-> "not_called"]
NoLastLog == [n |-> 0, ds |-> "not_called", or |-> "not_called", fallback |-> FALSE,
              was |-> None, explanation |-> None]

InitTasks ==
    /\ kind = [t \in Tasks |-> None]
    /\ pc = [t \in Tasks |-> "new"]
    /\ input = [t \in Tasks |-> None]
    /\ traces = [t \in Tasks |-> <<>>]
    /\ idx = [t \in Tasks |-> 0]
    /\ log = [t \in Tasks |-> NoLog]
    /\ lastLog = [t \in Tasks |-> NoLastLog]
    /\ attempts = [t \in Tasks |-> 0]
    /\ startStore = [t \in Tasks |-> <<>>]
    /\ ownIds = [t \in Tasks |-> {}]
    /\ calls = [t \in Tasks |-> 0]

TasksIdle == UNCHANGED <<callVars, thrVars, applyVars>>

\* Where a coroutine ends once its list is explained (or explain_traces raised).
Finished(k, tr) ==
    IF k = "batch" THEN "returned"
    ELSE IF BuildRaises(tr) THEN "failed" ELSE "done"

\* explain_traces from record i on, up to the next await that suspends the
\* coroutine: the loop ends, or the prompt of record i is built and the first
\* provider with a key is posted to.  OPENROUTER_API_KEY is a literal in llm.py.
ContinueFrom(t, k, store, tr, i, n) ==
    IF i > Len(tr)
    THEN /\ TRACE' = store
         /\ traces' = [traces EXCEPT ![t] = tr]
         /\ idx' = [idx EXCEPT ![t] = i]
         /\ pc' = [pc EXCEPT ![t] = Finished(k, tr)]
         /\ log' = [log EXCEPT ![t] = NoLog]
         /\ calls' = [calls EXCEPT ![t] = n]
    ELSE LET p == PromptCall(store, tr[i], n + 1, t)
         IN  /\ calls' = [calls EXCEPT ![t] = n + 1]
             /\ TRACE' = p.store
             /\ idx' = [idx EXCEPT ![t] = i]
             /\ IF p.exc # None
                THEN \* explain_traces raises; a handler falls back to
                     \* explain_traces_sync (main.py:104-107)
                     LET tr2 == IF k = "batch" THEN tr ELSE ExplainTracesSync(tr)
                     IN  /\ traces' = [traces EXCEPT ![t] = tr2]
                         /\ pc' = [pc EXCEPT ![t] =
                                      IF k = "batch" THEN "raised" ELSE Finished(k, tr2)]
                         /\ log' = [log EXCEPT ![t] = NoLog]
                ELSE /\ traces' = [traces EXCEPT ![t] = tr]
                     /\ pc' = [pc EXCEPT ![t] =
                                  IF deepseekKey THEN "deepseek" ELSE "openrouter"]
                     /\ log' = [log EXCEPT ![t] =
                                  [ds |-> IF deepseekKey THEN "pending" ELSE "no_key",
                                   or |-> "not_called"]]

Continue(t, k, store, tr, i) == ContinueFrom(t, k, store, tr, i, calls[t])

\* A pass that stores the explanation in the record and in those before it.
SetExplanationUpTo(tr, i, explanation) ==
    [j \in 1..Len(tr) |->
        IF j <= i
        THEN [tr[j] EXCEPT !.explanation = explanation, !.writes = @ + 1]
        ELSE tr[j]]

\* trace["explanation"] = explanation (llm.py:147)
SetExplanation(tr, i, explanation) ==
    [tr EXCEPT ![i].explanation = explanation, ![i].writes = @ + 1]

\* The post to DeepSeek ends.
DeepseekResponds(t) ==
    /\ pc[t] = "deepseek"
    /\ \E o \in env.ds :
          LET r == ProviderReturn("deepseek", o)
              i == idx[t]
          IN  /\ attempts' = [attempts EXCEPT ![t] = @ + 1]
              /\ IF NeedsNext(r)
                 THEN /\ pc' = [pc EXCEPT ![t] = "openrouter"]
                      /\ log' = [log EXCEPT ![t].ds = o]
                      /\ UNCHANGED <<TRACE, traces, idx, lastLog, calls>>
                 ELSE /\ lastLog' = [lastLog EXCEPT ![t] =
                                        [n |-> i, ds |-> o, or |-> "not_called",
                                         fallback |-> FALSE,
                                         was |-> traces[t][i].explanation,
                                         explanation |-> r]]
                      /\ Continue(t, kind[t], TRACE, SetExplanation(traces[t], i, r), i + 1)
    /\ UNCHANGED <<deepseekKey, env, kind, input, startStore, ownIds>>
    /\ TasksIdle

\* The post to OpenRouter ends.
OpenrouterResponds(t) ==
    /\ pc[t] = "openrouter"
    /\ \E o \in env.or :
          LET r == ProviderReturn("openrouter", o)
              i == idx[t]
              e == IF NeedsNext(r) THEN GenerateFallback(traces[t][i]) ELSE r
          IN  /\ attempts' = [attempts EXCEPT ![t] = @ + 1]
              /\ lastLog' = [lastLog EXCEPT ![t] =
                                [n |-> i, ds |-> log[t].ds, or |-> o,
                                 fallback |-> NeedsNext(r),
                                 was |-> traces[t][i].explanation,
                                 explanation |-> e]]
              /\ Continue(t, kind[t], TRACE, SetExplanation(traces[t], i, e), i + 1)
    /\ UNCHANGED <<deepseekKey, env, kind, input, startStore, ownIds>>
    /\ TasksIdle

(***************************************************************************)
(* SpecExplain: a caller hands explain_traces a batch of records that the  *)
(* interceptor produced and that were drained from the store.              *)
(***************************************************************************)
SampleCalls ==
    { Call("check_stock", <<>>, [product_id |-> "LAPTOP-001", requested_quantity |-> "5"]),
      Call("validate_price", <<>>, [price |-> "Decimal('9.99')"]) }

BatchRecord(i, c) ==
    LET inputs == BindInputs(Params(c.function), c.args, c.kwargs)
    IN  TraceRecord(i, c.function, inputs, Result(c.function, inputs), "-")

Batches ==
    UNION { { [i \in 1..n |-> BatchRecord(i, cs[i])] : cs \in [1..n -> SampleCalls] } :
            n \in 0..MaxBatch }

StartBatch(t) ==
    /\ \A u \in Tasks : pc[u] = "new"
    /\ t = "a"
    /\ \E b \in Batches :
          /\ kind' = [kind EXCEPT ![t] = "batch"]
          /\ startStore' = [startStore EXCEPT ![t] = TRACE]
          /\ ContinueFrom(t, "batch", TRACE, b, 1, Len(b))
    /\ UNCHANGED <<deepseekKey, env, input, lastLog, attempts, ownIds>>
    /\ TasksIdle

NextExplain ==
    \/ \E t \in Tasks : StartBatch(t)
    \/ \E t \in Tasks : DeepseekResponds(t)
    \/ \E t \in Tasks : OpenrouterResponds(t)

AnyOutcome == [ds |-> Outcomes, or |-> Outcomes]

(***************************************************************************)
(* main.py: the request handlers.  They are coroutines on one event loop:   *)
(* the code between two awaits that suspend runs without interruption.      *)
(***************************************************************************)
RECURSIVE RunCall(_, _, _, _), RunKids(_, _, _, _, _)
\* One wrapper invocation run to its end: the instrumented calls of the body, then
\* the body's own outcome.  next is the number of invocations made so far.
RunCall(c, store, n, req) ==
    LET inputs == BindInputs(Params(c.function), c.args, c.kwargs)
        id     == n + 1
        k      == RunKids(Children(c.function, inputs), 1, store, id, req)
        e      == IF k.exc # None THEN k.exc ELSE Raises(c.function, inputs)
    IN  IF e # None
        THEN [store |-> WrapperOnRaise(k.store, e).store,
              exc   |-> WrapperOnRaise(k.store, e).exc,
              n     |-> k.n]
        ELSE [store |-> WrapperOnReturn(k.store, id, c.function, inputs,
                                        Result(c.function, inputs), req).store,
              exc   |-> None,
              n     |-> k.n]
RunKids(kids, i, store, n, req) ==
    IF i > Len(kids)
    THEN [store |-> store, exc |-> None, n |-> n]
    ELSE LET r == RunCall(kids[i], store, n, req)
         IN  IF r.exc # None THEN r ELSE RunKids(kids, i + 1, r.store, r.n, req)

Kw1(k1, v1) == [x \in {k1} |-> v1]
Kw2(k1, v1, k2, v2) == [x \in {k1, k2} |-> IF x = k1 THEN v1 ELSE v2]
Kw3(k1, v1, k2, v2, k3, v3) ==
    [x \in {k1, k2, k3} |-> IF x = k1 THEN v1 ELSE IF x = k2 THEN v2 ELSE v3]

\* simple_checkout (checkout.py:151-177)
SimpleCalls(inp) ==
    << Call("validate_user_type", <<>>, Kw1("user_type", inp.user_type)),
       Call("validate_price", <<>>, Kw1("price", inp.price)),
       Call("calculate_base_discount", <<>>,
            Kw2("price", "validated_price", "user_tier", "tier")),
       Call("calculate_sales_tax", <<>>,
            Kw2("amount", "discounted_price", "state", "DEFAULT")) >>

\* process_checkout (checkout.py:16-148): the calls it makes on this payload.
FullCalls(inp) ==
    LET c1  == Call("validate_user_type", <<>>, Kw1("user_type", inp.user_type))
        c2  == Call("get_product_details", <<>>, Kw1("product_id", inp.product_id))
        c3  == Call("check_stock", <<>>,
                    Kw2("product_id", inp.product_id, "requested_quantity", inp.quantity))
        c4  == Call("validate_quantity", <<>>,
                    Kw2("quantity", inp.quantity, "max_stock", "current_stock"))
        c5  == Call("reserve_stock", <<>>,
                    Kw2("product_id", inp.product_id, "quantity", inp.quantity))
        c6  == Call("calculate_base_discount", <<>>,
                    Kw2("price", "unit_price", "user_tier", "tier"))
        c7  == Call("apply_volume_discount", <<>>,
                    Kw2("price", "discounted_unit_price", "quantity", inp.quantity))
        c8  == Call("apply_promo_code", <<>>,
                    Kw2("price", "subtotal", "promo_code", inp.promo_code))
        c9  == Call("calculate_sales_tax", <<>>,
                    Kw2("amount", "subtotal", "state", "CA"))
        c10 == Call("calculate_shipping_cost", <<>>,
                    Kw3("subtotal", "subtotal", "weight_kg", "total_weight",
                        "express", "False"))
        c11 == Call("calculate_final_total", <<>>,
                    Kw3("subtotal", "subtotal", "tax_amount", "tax_amount",
                        "shipping_cost", "shipping_cost"))
    IN  IF ~UserValid(inp.user_type) THEN <<c1>>
        ELSE IF ~ProductFound(inp.product_id) THEN <<c1, c2>>
        ELSE IF ~StockAvailable(inp.product_id, inp.quantity) THEN <<c1, c2, c3>>
        ELSE <<c1, c2, c3, c4, c5, c6, c7>>
             \o (IF inp.promo_code # "" THEN <<c8>> ELSE <<>>)
             \o <<c9, c10, c11>>

\* run_resume_selection (main.py:315)
ResumeCalls(inp) == << Call("process_applications", <<"apps", inp.jd>>, NoKwargs) >>

HandlerCalls(k, inp) ==
    CASE k = "simple" -> SimpleCalls(inp)
      [] k = "full"   -> FullCalls(inp)
      [] k = "resume" -> ResumeCalls(inp)

RECURSIVE RunCalls(_, _, _, _, _)
\* The top-level calls of a pipeline, one after the other; the first exception
\* ends the pipeline.
RunCalls(cs, i, store, n, req) ==
    IF i > Len(cs)
    THEN [store |-> store, exc |-> None, n |-> n]
    ELSE LET r == RunCall(cs[i], store, n, req)
         IN  IF r.exc # None THEN r ELSE RunCalls(cs, i + 1, r.store, r.n, req)

Payloads(k) ==
    CASE k = "simple" -> { [price |-> "100", user_type |-> "premium"] }
      [] k = "full"   -> { [user_type |-> "hacker", product_id |-> "LAPTOP-001",
                            quantity |-> "5", promo_code |-> ""],
                           [user_type |-> "premium", product_id |-> "LAPTOP-001",
                            quantity |-> "30", promo_code |-> ""] }
      [] k = "resume" -> { [upload |-> u, jd |-> jd] :
                             u \in BOOLEAN, jd \in {"jd_budget_0", "jd_budget_50000"} }

\* The handler from its pipeline to its first suspending await: the pipeline,
\* pop_traces, then explain_traces.  An exception of the pipeline leaves the
\* handler (the framework answers 500) with the store as it is.
RunHandler(t, k, inp, store) ==
    LET r == RunCalls(HandlerCalls(k, inp), 1, store, calls[t], t)
    IN  IF r.exc # None
        THEN /\ TRACE' = r.store
             /\ calls' = [calls EXCEPT ![t] = r.n]
             /\ pc' = [pc EXCEPT ![t] = "error"]
             /\ UNCHANGED <<traces, idx, log, ownIds, startStore>>
        ELSE LET p   == PopTraces(r.store)
                 own == (calls[t] + 1)..r.n
             IN  /\ ownIds' = [ownIds EXCEPT ![t] = own]
                 /\ startStore' = [startStore EXCEPT ![t] = p.store]
                 /\ ContinueFrom(t, k, p.store, p.returned, 1, r.n)

\* A request arrives: clear_traces(), then the handler runs to its first
\* suspending await.  run_resume_selection awaits file.read() when a file was
\* uploaded (main.py:299-300).
BeginRequest(t) ==
    /\ pc[t] = "new"
    /\ t = "b" => pc["a"] # "new"      \* "a" names the request that arrives first
    /\ \E k \in {"simple", "full", "resume"} :
       \E inp \in Payloads(k) :
          /\ kind' = [kind EXCEPT ![t] = k]
          /\ input' = [input EXCEPT ![t] = inp]
          /\ IF k = "resume" /\ inp.upload
             THEN /\ TRACE' = ClearTraces(TRACE)
                  /\ pc' = [pc EXCEPT ![t] = "read"]
                  /\ UNCHANGED <<traces, idx, log, ownIds, startStore, calls>>
             ELSE RunHandler(t, k, inp, ClearTraces(TRACE))
    /\ UNCHANGED <<deepseekKey, env, lastLog, attempts>>
    /\ TasksIdle

\* file.read() ends: the handler goes on (main.py:301-322).
AfterRead(t) ==
    /\ pc[t] = "read"
    /\ RunHandler(t, kind[t], input[t], TRACE)
    /\ UNCHANGED <<deepseekKey, env, kind, input, lastLog, attempts>>
    /\ TasksIdle

NextServer ==
    \/ \E t \in Tasks : BeginRequest(t)
    \/ \E t \in Tasks : AfterRead(t)
    \/ \E t \in Tasks : DeepseekResponds(t)
    \/ \E t \in Tasks : OpenrouterResponds(t)

\* The provider behaviours of a server run: each provider keeps one behaviour.
ServerConfigs ==
    { [key |-> TRUE,  ds |-> {"content_text"}, or |-> {"content_text"}],
      [key |-> TRUE,  ds |-> {"timeout"},      or |-> {"content_text"}],
      [key |-> FALSE, ds |-> {"timeout"},      or |-> {"status_not_200"}],
      [key |-> FALSE, ds |-> {"timeout"},      or |-> {"content_not_text"}] }

(***************************************************************************)
(* SpecApply: one function of the repository applied to one input.         *)
(***************************************************************************)
ApplyIdle == UNCHANGED <<callVars, thrVars, taskVars>>

SeqsUpTo(S, n) == UNION { [1..k -> S] : k \in 0..n }

\* Signatures, positional arguments and named arguments of a wrapped callable.
ParamLists ==
    { ps \in SeqsUpTo({"x", "y", "c"}, MaxParams) :
         \A i, j \in 1..Len(ps) : i # j => ps[i] # ps[j] }
ArgLists == SeqsUpTo({"a", "b"}, MaxArgs)
KwargDicts == UNION { [S -> {"v"}] : S \in SUBSET {"x", "c", "z"} }
BindCases ==
    { [params |-> ps, args |-> as, kwargs |-> kw] :
         ps \in ParamLists, as \in ArgLists, kw \in KwargDicts }

\* wrapper lines 31-40 on one call.
ApplyBind ==
    /\ phase = "input"
    /\ op = "bind"
    /\ out' = BindInputs(arg.params, arg.args, arg.kwargs)
    /\ phase' = "output"
    /\ UNCHANGED <<TRACE, op, arg, now>>
    /\ ApplyIdle

\* The wall clock: datetime.now() is the local time of the host, which the host
\* can set back (a clock correction, the end of daylight saving time).
Clock == 0..MaxClock

Tick ==
    /\ phase \in {"again", "running"}
    /\ now' \in Clock \ {now}
    /\ UNCHANGED <<TRACE, op, arg, out, phase>>
    /\ ApplyIdle

\* The dict of explainx.py:55-65 with all its keys (and the ghost fields).
FullRecord(fn, inputs, output, start, end, explanation) ==
    [function |-> fn, file |-> "functions/" \o fn \o ".py", inputs |-> inputs,
     output |-> output, code |-> "def " \o fn, start_time |-> start,
     end_time |-> end, duration_ms |-> end - start, explanation |-> explanation,
     id |-> 1, req |-> "-", writes |-> 0]

\* explanation.split('\n')
SplitLines(text) ==
    IF text = "line 1\nline 2" THEN <<"line 1", "line 2">> ELSE <<text>>

Rule == "============================================================"
Dashes == "------------------------------------------------------------"
Header == << <<Rule>>, <<"ExplainX - Function Execution Report">>, <<Rule>>, <<"">> >>
Footer == << <<Rule>>, <<"End of ExplainX Report">>, <<Rule>> >>

\* The lines build_explain_file appends for the i-th record (llm.py:176-194);
\* a line is the tuple of the pieces its f-string joins (the pictographs and the
\* bullet of the source are written in ASCII).
RecordLines(i, trace) ==
    LET keys  == InputKeys(trace)
        parts == SplitLines(ExplanationOf(trace))
    IN  << <<"[", i, "] Function: ", trace.function>>,
           <<"    File: ", trace.file>>,
           <<"    Execution Time: ", Fmt2f(trace.duration_ms), "ms">>,
           <<"">>,
           <<"    Inputs:">> >>
        \o [j \in 1..Len(keys) |-> <<"       * ", keys[j], ": ", trace.inputs[keys[j]]>>]
        \o << <<"">>, <<"    Output: ", trace.output>>, <<"">>, <<"    Explanation:">> >>
        \o [j \in 1..Len(parts) |-> <<"       ", parts[j]>>]
        \o << <<"">>, <<Dashes>>, <<"">> >>

RECURSIVE BodyLines(_, _)
BodyLines(tr, i) ==
    IF i > Len(tr) THEN <<>> ELSE RecordLines(i, tr[i]) \o BodyLines(tr, i + 1)

\* A report that carries the time at which it was built.
BuildExplainFileStamped(tr) ==
    Header \o << <<"Generated: ", now>> >> \o BodyLines(tr, 1) \o Footer

\* build_explain_file: the lines that "\n".join(lines) joins.
BuildExplainFile(tr) == Header \o BodyLines(tr, 1) \o Footer

\* Explained records.
\* A call of build_explain_file: the report, or the AttributeError of
\* explanation.split on a value that is not a str.
BuildExplainFileCall(tr) ==
    IF BuildRaises(tr)
    THEN [exc |-> "AttributeError", text |-> <<>>]
    ELSE [exc |-> None, text |-> BuildExplainFile(tr)]

\* The record without its key "explanation".
WithoutExplanation(trace) == [k \in DOMAIN trace \ {"explanation"} |-> trace[k]]

\* Records as the wrapper appends them ("explanation": None), the same without
\* the key, and an explained one.
FreshRecords ==
    LET r == FullRecord("check_stock",
                        [product_id |-> "LAPTOP-001", requested_quantity |-> "5"],
                        "{'available': True}", 0, 1, None)
    IN  {r, WithoutExplanation(r), [r EXCEPT !.explanation = "deepseek text"]}
FreshCases == SeqsUpTo(FreshRecords, MaxRender)

\* build_explain_file on a list that was not, or not wholly, explained.
ApplyBuildFresh ==
    /\ phase = "input"
    /\ op = "build_unexplained"
    /\ out' = BuildExplainFileCall(arg)
    /\ phase' = "output"
    /\ UNCHANGED <<TRACE, op, arg, now>>
    /\ ApplyIdle

RenderRecords ==
    { FullRecord("check_stock",
                 [product_id |-> "LAPTOP-001", requested_quantity |-> "5"],
                 "{'available': True}", 0, 1, "deepseek text"),
      FullRecord("validate_user_type", [user_type |-> "premium"],
                 "{'valid': True}", 1, 1, "line 1\nline 2") }
RenderCases == SeqsUpTo(RenderRecords, MaxRender)

\* build_explain_file is called.
ApplyBuild ==
    /\ phase = "input"
    /\ op = "build_explain_file"
    /\ out' = <<BuildExplainFile(arg)>>
    /\ phase' = "again"
    /\ UNCHANGED <<TRACE, op, arg, now>>
    /\ ApplyIdle

\* build_explain_file is called once more with the same list.
ApplyBuildAgain ==
    /\ phase = "again"
    /\ op = "build_explain_file"
    /\ out' = Append(out, BuildExplainFile(arg))
    /\ phase' = "output"
    /\ UNCHANGED <<TRACE, op, arg, now>>
    /\ ApplyIdle

\* What a caller can do to the list object it got from get_traces.
Reverse(l) == [i \in 1..Len(l) |-> l[Len(l) + 1 - i]]
EditList(l, how) ==
    CASE how = "append"  -> Append(l, BatchRecord(0, Call("check_stock", <<>>,
                               [product_id |-> "LAPTOP-001", requested_quantity |-> "30"])))
      [] how = "remove"  -> IF l = <<>> THEN l ELSE Tail(l)
      [] how = "reverse" -> Reverse(l)
      [] how = "clear"   -> <<>>

\* get_traces() on a store that holds the records arg.
ApplyGet ==
    /\ phase = "input"
    /\ op = "get_traces"
    /\ LET g == GetTraces(<<arg>>, 1)
       IN  /\ out' = [heap |-> g.heap, trace |-> 1, got |-> g.ref]
           /\ TRACE' = g.heap[1]
    /\ phase' = "got"
    /\ UNCHANGED <<op, arg, now>>
    /\ ApplyIdle

\* The caller changes the list it got.
ApplyEdit ==
    /\ phase = "got"
    /\ op = "get_traces"
    /\ \E how \in {"append", "remove", "reverse", "clear"} :
          out' = [out EXCEPT !.heap[out.got] = EditList(@, how)]
    /\ TRACE' = out'.heap[out.trace]
    /\ phase' = "output"
    /\ UNCHANGED <<op, arg, now>>
    /\ ApplyIdle

\* INVENTORY: the stock of each product.
Inventory ==
    [p \in {"LAPTOP-001", "PHONE-001", "HEADPHONES-001", "TABLET-001", "WATCH-001"} |->
        CASE p = "LAPTOP-001"     -> 25
          [] p = "PHONE-001"      -> 150
          [] p = "HEADPHONES-001" -> 75
          [] p = "TABLET-001"     -> 40
          [] p = "WATCH-001"      -> 200]

\* product_id.upper().strip()
Upper(text) ==
    CASE text = "laptop-001" -> "LAPTOP-001"
      [] text = "flat50"     -> "FLAT50"
      [] OTHER               -> text

\* A check_stock that refuses a request for the whole stock.
CheckStockStrict(product_id, requested_quantity) ==
    LET id == Upper(product_id)
    IN  IF id \notin DOMAIN Inventory
        THEN [product_id |-> id, found |-> FALSE, available |-> FALSE]
        ELSE IF requested_quantity < Inventory[id]
        THEN [product_id |-> id, found |-> TRUE, available |-> TRUE,
              requested |-> requested_quantity, current_stock |-> Inventory[id],
              remaining_after |-> Inventory[id] - requested_quantity]
        ELSE [product_id |-> id, found |-> TRUE, available |-> FALSE,
              requested |-> requested_quantity, current_stock |-> Inventory[id],
              shortage |-> requested_quantity - Inventory[id]]

\* check_stock (inventory.py:22-64); name, price and weight are left out.
CheckStock(product_id, requested_quantity) ==
    LET id == Upper(product_id)
    IN  IF id \notin DOMAIN Inventory
        THEN [product_id |-> id, found |-> FALSE, available |-> FALSE]
        ELSE IF requested_quantity <= Inventory[id]
        THEN [product_id |-> id, found |-> TRUE, available |-> TRUE,
              requested |-> requested_quantity, current_stock |-> Inventory[id],
              remaining_after |-> Inventory[id] - requested_quantity]
        ELSE [product_id |-> id, found |-> TRUE, available |-> FALSE,
              requested |-> requested_quantity, current_stock |-> Inventory[id],
              shortage |-> requested_quantity - Inventory[id]]

\* Amounts of money are whole numbers of 1/10000 of a dollar, so that 10% and
\* 20% of an amount given to the tenth of a cent are whole numbers too.
Dollars(d, frac) == d * 10000 + frac

\* round(x, 2) for x >= 0: the nearest whole number of cents. An amount exactly
\* half-way goes to the even cent here; in the program the side depends on
\* the binary float nearest to the amount, and PromoPrices has no such amount.
Round2(x) ==
    LET q == x \div 100
        r == x % 100
    IN  IF r < 50 THEN q * 100
        ELSE IF r > 50 THEN (q + 1) * 100
        ELSE IF q % 2 = 0 THEN q * 100 ELSE (q + 1) * 100

\* promo_codes (pricing.py:93-98); a percent value is in hundredths, a fixed
\* value and min_purchase are in dollars.
PromoCodes ==
    [c \in {"SAVE10", "SAVE20", "FLAT50", "FREESHIP"} |->
        CASE c = "SAVE10"   -> [type |-> "percent", value |-> 10, min_purchase |-> 0]
          [] c = "SAVE20"   -> [type |-> "percent", value |-> 20, min_purchase |-> 50]
          [] c = "FLAT50"   -> [type |-> "fixed", value |-> 50, min_purchase |-> 100]
          [] c = "FREESHIP" -> [type |-> "bonus", value |-> "free_shipping",
                                min_purchase |-> 0]]

\* str.strip() on the spellings of PromoSpellings.
Strip(text) ==
    CASE text = " FLAT50" -> "FLAT50"
      [] OTHER            -> text

\* code_upper = promo_code.upper().strip() if promo_code else ""
CodeUpper(promo_code) == IF promo_code = "" THEN "" ELSE Strip(Upper(promo_code))

\* The dict returned when the price is below the minimum purchase of the code.
BelowMinimum(price, code_upper) ==
    [original_price |-> price, promo_code |-> code_upper, valid |-> FALSE,
     error |-> "Minimum purchase of $"
                 \o ToString(PromoCodes[code_upper].min_purchase) \o " required",
     final_price |-> price, discount_applied |-> 0]

\* The dict returned when the code applies.
Applies(price, code_upper) ==
    LET promo    == PromoCodes[code_upper]
        discount == CASE promo.type = "percent" -> (price * promo.value) \div 100
                      [] promo.type = "fixed"   -> Min(Dollars(promo.value, 0), price)
                      [] OTHER                  -> 0
    IN  [original_price |-> price, promo_code |-> code_upper, valid |-> TRUE,
         promo_type |-> promo.type,
         discount_applied |-> Round2(discount),
         final_price |-> Round2(price - discount),
         bonus |-> IF promo.type = "bonus" THEN promo.value ELSE None]

\* An apply_promo_code that also refuses a price equal to the minimum purchase.
ApplyPromoCodeAbove(price, promo_code) ==
    LET code_upper == CodeUpper(promo_code)
    IN  IF code_upper \notin DOMAIN PromoCodes
        THEN [original_price |-> price, promo_code |-> promo_code, valid |-> FALSE,
              error |-> "Invalid promo code", final_price |-> price,
              discount_applied |-> 0]
        ELSE IF price <= Dollars(PromoCodes[code_upper].min_purchase, 0)
        THEN BelowMinimum(price, code_upper)
        ELSE Applies(price, code_upper)

\* apply_promo_code (pricing.py:82-142).
ApplyPromoCode(price, promo_code) ==
    LET code_upper == CodeUpper(promo_code)
    IN  IF code_upper \notin DOMAIN PromoCodes
        THEN [original_price |-> price, promo_code |-> promo_code, valid |-> FALSE,
              error |-> "Invalid promo code", final_price |-> price,
              discount_applied |-> 0]
        ELSE IF price < Dollars(PromoCodes[code_upper].min_purchase, 0)
        THEN BelowMinimum(price, code_upper)
        ELSE Applies(price, code_upper)

\* The value the callable of a wrapped call returns.
BodyResult(fn, inputs) ==
    CASE fn = "check_stock" -> CheckStock(inputs.product_id, inputs.requested_quantity)
      [] fn = "apply_promo_code" -> ApplyPromoCode(inputs.price, inputs.promo_code)
      [] fn = "sqrt"        -> 2

\* The prices a promo code is applied to: whole cents, as apply_volume_discount
\* returns them to checkout (0, 49.99, 50, 80, 99.99, 100, 120.50, 2999.99), and
\* amounts with a fraction of a cent, as a direct caller may pass them (99.999,
\* 100.004, 100.006).
PromoPrices ==
    {Dollars(0, 0), Dollars(49, 9900), Dollars(50, 0), Dollars(80, 0),
     Dollars(99, 9900), Dollars(99, 9990), Dollars(100, 0), Dollars(100, 40),
     Dollars(100, 60), Dollars(120, 5000), Dollars(2999, 9900)}

PromoSpellings ==
    {"SAVE10", "SAVE20", "FLAT50", "FREESHIP", "flat50", " FLAT50", "BOGUS", ""}

\* apply_promo_code(price=subtotal, promo_code=promo_code), as checkout calls it.
PromoCalls ==
    { Call("apply_promo_code", <<>>, [price |-> p, promo_code |-> c]) :
         p \in PromoPrices, c \in PromoSpellings }

\* The quantities asked for: 5 and, for each stock s, s - 1, s and s + 1.
Quantities ==
    {5} \cup UNION { {Inventory[p] - 1, Inventory[p], Inventory[p] + 1} : p \in DOMAIN Inventory }

StockCalls ==
    { Call("check_stock", <<>>, [product_id |-> p, requested_quantity |-> q]) :
         p \in DOMAIN Inventory \cup {"laptop-001", "DESK-001"}, q \in Quantities }
    \cup
    { Call("check_stock", <<p, q>>, NoKwargs) : p \in {"LAPTOP-001"}, q \in Quantities }

\* What inspect can tell about the callable: the source text of a callable
\* defined in a file that is still there, no source text for one made by exec or
\* whose file is gone, neither source nor file for one written in C (math.sqrt).
WrapCases ==
    { [call |-> c, source |-> src, file |-> "ok"] :
         c \in StockCalls \cup PromoCalls, src \in {"ok", "unavailable"} }
    \cup
    { [call |-> Call("sqrt", <<4>>, NoKwargs), source |-> "unavailable",
       file |-> "unavailable"] }

\* wrapper lines 45-67, after fn returned result: the second reading of the
\* clock, inspect.getsource(fn) inside try/except, then the dict literal, which
\* calls inspect.getfile(fn) outside any try, then the append and the return.
WrapperCapture(store, fn, inputs, result, start, end, meta) ==
    LET code == IF meta.source = "ok" THEN "def " \o fn ELSE "Source code not available"
        rec  == [FullRecord(fn, inputs, result, start, end, None) EXCEPT !.code = code]
    IN  IF meta.file = "ok"
        THEN [store |-> Append(store, rec), exc |-> None, ret |-> result]
        ELSE [store |-> store, exc |-> "TypeError", ret |-> None]

\* wrapper lines 27-43: the first reading of the clock, then fn runs.
ApplyWrapStart ==
    /\ phase = "input"
    /\ op = "wrapped_call"
    /\ out' = [start |-> now]
    /\ phase' = "running"
    /\ UNCHANGED <<TRACE, op, arg, now>>
    /\ ApplyIdle

\* fn has returned: wrapper lines 45-67.
ApplyWrapEnd ==
    /\ phase = "running"
    /\ op = "wrapped_call"
    /\ LET c      == arg.call
           inputs == BindInputs(Params(c.function), c.args, c.kwargs)
           result == BodyResult(c.function, inputs)
           w      == WrapperCapture(TRACE, c.function, inputs, result, out.start, now, arg)
       IN  /\ TRACE' = w.store
           /\ out' = [start |-> out.start, result |-> result, ret |-> w.ret, exc |-> w.exc]
    /\ phase' = "output"
    /\ UNCHANGED <<op, arg, now>>
    /\ ApplyIdle

\* A signature: the positional-or-keyword parameters, whether they have default
\* values, whether *rest follows them and whether **extra ends the list.
Signatures ==
    [plain : { ps \in SeqsUpTo({"x", "y"}, 2) :
                  \A i, j \in 1..Len(ps) : i # j => ps[i] # ps[j] },
     defaults : BOOLEAN, varpos : BOOLEAN, varkw : BOOLEAN]

\* list(inspect.signature(fn).parameters.keys())
SigParams(sig) ==
    sig.plain \o (IF sig.varpos THEN <<"rest">> ELSE <<>>)
              \o (IF sig.varkw THEN <<"extra">> ELSE <<>>)

Range(seq) == {seq[i] : i \in 1..Len(seq)}

\* fn(*args, **kwargs) binds its arguments; otherwise it raises TypeError: too
\* many positional arguments, a parameter given twice, an unexpected keyword,
\* a parameter without default left out.
Accepts(sig, args, kwargs) ==
    LET n   == Min(Len(args), Len(sig.plain))
        pos == {sig.plain[i] : i \in 1..n}
    IN  /\ sig.varpos \/ Len(args) <= Len(sig.plain)
        /\ pos \cap DOMAIN kwargs = {}
        /\ sig.varkw \/ DOMAIN kwargs \subseteq Range(sig.plain)
        /\ sig.defaults \/ Range(sig.plain) \subseteq pos \cup DOMAIN kwargs

SigCases ==
    { [sig |-> sg, args |-> as, kwargs |-> kw] :
         sg \in Signatures, as \in ArgLists, kw \in KwargDicts }

\* wrapper lines 27-67 around a callable f of signature arg.sig that returns
\* "ok" when the arguments fit its signature; when they do not, f raises
\* TypeError at line 43 and the wrapper appends nothing.
ApplySigCall ==
    /\ phase = "input"
    /\ op = "signature_call"
    /\ LET inputs == BindInputs(SigParams(arg.sig), arg.args, arg.kwargs)
       IN  IF Accepts(arg.sig, arg.args, arg.kwargs)
           THEN /\ TRACE' = Append(TRACE, FullRecord("f", inputs, "ok", now, now, None))
                /\ out' = [exc |-> None, ret |-> "ok"]
           ELSE /\ TRACE' = TRACE
                /\ out' = [exc |-> "TypeError", ret |-> None]
    /\ phase' = "output"
    /\ UNCHANGED <<op, arg, now>>
    /\ ApplyIdle

(***************************************************************************)
(* The store as list objects: heap holds the list objects, ref names the   *)
(* one the global name TRACE is bound to.                                  *)
(***************************************************************************)
\* A pop_traces that hands out the list of the store itself and empties it.
PopTracesRefShared(heap, ref) ==
    [heap |-> [heap EXCEPT ![ref] = <<>>], returned |-> ref, store |-> ref]

\* pop_traces: traces = TRACE.copy(); TRACE = []; return traces.  The copy and
\* the empty list are new list objects.
PopTracesRef(heap, ref) ==
    [heap |-> heap \o << heap[ref], <<>> >>, returned |-> Len(heap) + 1,
     store |-> Len(heap) + 2]

\* clear_traces: TRACE = [], a new list object.
ClearTracesRef(heap, ref) == [heap |-> Append(heap, <<>>), store |-> Len(heap) + 1]

\* wrapper line 55: TRACE.append(record), on the list object TRACE names.
AppendRef(heap, ref, record) == [heap EXCEPT ![ref] = Append(@, record)]

\* The store holds arg; nothing was popped yet.
ApplyStoreStart ==
    /\ phase = "input"
    /\ op = "pop_traces"
    /\ out' = [heap |-> <<arg>>, store |-> 1, held |-> <<>>, snaps |-> <<>>,
               log |-> <<>>]
    /\ TRACE' = arg
    /\ phase' = "steps"
    /\ UNCHANGED <<op, arg, now>>
    /\ ApplyIdle

\* A request drains the store; held lists the list objects returned so far and
\* snaps (ghost) what each held when it was returned.
ApplyStorePop ==
    /\ phase = "steps"
    /\ op = "pop_traces"
    /\ Len(out.log) < MaxStoreOps
    /\ LET p == PopTracesRef(out.heap, out.store)
       IN  /\ out' = [heap |-> p.heap, store |-> p.store,
                      held |-> Append(out.held, p.returned),
                      snaps |-> Append(out.snaps, p.heap[p.returned]),
                      log |-> Append(out.log, "pop")]
           /\ TRACE' = p.heap[p.store]
    /\ UNCHANGED <<op, arg, now, phase>>
    /\ ApplyIdle

\* A wrapped call of some request returns and its record is appended.
ApplyStoreAppend ==
    /\ phase = "steps"
    /\ op = "pop_traces"
    /\ Len(out.log) < MaxStoreOps
    /\ \E c \in SampleCalls :
          out' = [out EXCEPT !.heap = AppendRef(out.heap, out.store,
                                                BatchRecord(Len(out.log) + 10, c)),
                             !.log = Append(@, "append")]
    /\ TRACE' = out'.heap[out.store]
    /\ UNCHANGED <<op, arg, now, phase>>
    /\ ApplyIdle

\* A handler starts: clear_traces().
ApplyStoreClear ==
    /\ phase = "steps"
    /\ op = "pop_traces"
    /\ Len(out.log) < MaxStoreOps
    /\ LET c == ClearTracesRef(out.heap, out.store)
       IN  /\ out' = [out EXCEPT !.heap = c.heap, !.store = c.store,
                                 !.log = Append(@, "clear")]
           /\ TRACE' = c.heap[c.store]
    /\ UNCHANGED <<op, arg, now, phase>>
    /\ ApplyIdle

(***************************************************************************)
(* process_checkout (apis/checkout.py) under run_full_checkout.  The       *)
(* amounts of money are left out of the inputs and results: every product  *)
(* costs more than 100 after the largest discounts, so that no branch of   *)
(* process_checkout and no refusal of a known promo code depends on them.  *)
(***************************************************************************)
CheckoutOrder ==
    <<"validate_user_type", "get_product_details", "check_stock", "validate_quantity",
      "reserve_stock", "calculate_base_discount", "apply_volume_discount",
      "apply_promo_code", "calculate_sales_tax", "calculate_shipping_cost",
      "calculate_final_total">>

\* valid_types (validation.py:21-25): the tier of each user type.
UserTiers ==
    [u \in {"premium", "standard", "guest"} |->
        CASE u = "premium" -> 3 [] u = "standard" -> 2 [] u = "guest" -> 1]

\* user_type.lower().strip()
Lower(text) ==
    CASE text = "Premium" -> "premium"
      [] OTHER            -> text

ValidateUserType(user_type) ==
    LET u == Lower(user_type)
    IN  IF u \in DOMAIN UserTiers
        THEN [valid |-> TRUE, user_type |-> u, tier |-> UserTiers[u]]
        ELSE [valid |-> FALSE, user_type |-> u, tier |-> 0,
              error |-> "Invalid user type: " \o user_type]

GetProductDetails(product_id) ==
    LET id == Upper(product_id)
    IN  IF id \notin DOMAIN Inventory
        THEN [found |-> FALSE, product_id |-> id, error |-> "Product not found"]
        ELSE [found |-> TRUE, product_id |-> id, stock |-> Inventory[id],
              in_stock |-> Inventory[id] > 0]

\* validate_quantity; the quantity is an int in every call modelled.
ValidateQuantity(quantity, max_stock) ==
    IF quantity <= 0
    THEN [valid |-> FALSE, requested |-> quantity,
          error |-> "Quantity must be a positive integer"]
    ELSE IF quantity > max_stock
    THEN [valid |-> TRUE, requested |-> quantity, approved |-> max_stock,
          warning |-> "quantity adjusted"]
    ELSE [valid |-> TRUE, requested |-> quantity, approved |-> quantity]

ReserveStock(product_id, quantity) ==
    LET id == Upper(product_id)
    IN  IF id \notin DOMAIN Inventory
        THEN [success |-> FALSE, product_id |-> id, error |-> "Product not found"]
        ELSE IF quantity > Inventory[id]
        THEN [success |-> FALSE, product_id |-> id, requested |-> quantity,
              available |-> Inventory[id], error |-> "Insufficient stock"]
        ELSE [success |-> TRUE, product_id |-> id, quantity_reserved |-> quantity,
              reservation_id |-> "RES-" \o id \o "-" \o ToString(quantity)]

\* The discount rate of apply_volume_discount, in hundredths.
VolumeRate(quantity) ==
    IF quantity >= 100 THEN 20
    ELSE IF quantity >= 50 THEN 15
    ELSE IF quantity >= 25 THEN 10
    ELSE IF quantity >= 10 THEN 5
    ELSE 0

\* The named arguments process_checkout passes to the step fn; a holds the
\* arguments of process_checkout and o its local variables.
CheckoutInputs(fn, a, o) ==
    CASE fn = "validate_user_type"      -> [user_type |-> a.user_type]
      [] fn = "get_product_details"     -> [product_id |-> a.product_id]
      [] fn = "check_stock"             ->
            [product_id |-> a.product_id, requested_quantity |-> a.quantity]
      [] fn = "validate_quantity"       ->
            [quantity |-> a.quantity, max_stock |-> o.current_stock]
      [] fn = "reserve_stock"           ->
            [product_id |-> a.product_id, quantity |-> o.approved]
      [] fn = "calculate_base_discount" -> [user_tier |-> o.tier]
      [] fn = "apply_volume_discount"   -> [quantity |-> o.approved]
      [] fn = "apply_promo_code"        -> [promo_code |-> a.promo_code]
      [] fn = "calculate_sales_tax"     -> [state |-> a.state]
      [] fn = "calculate_shipping_cost" -> [express |-> a.express]
      [] fn = "calculate_final_total"   -> [tip_percent |-> 0]

\* What the step fn returns on these inputs.
CheckoutResult(fn, inputs) ==
    CASE fn = "validate_user_type"      -> ValidateUserType(inputs.user_type)
      [] fn = "get_product_details"     -> GetProductDetails(inputs.product_id)
      [] fn = "check_stock"             ->
            CheckStock(inputs.product_id, inputs.requested_quantity)
      [] fn = "validate_quantity"       ->
            ValidateQuantity(inputs.quantity, inputs.max_stock)
      [] fn = "reserve_stock"           -> ReserveStock(inputs.product_id, inputs.quantity)
      [] fn = "calculate_base_discount" ->
            [discount_rate |-> CASE inputs.user_tier = 3 -> 20
                                 [] inputs.user_tier = 2 -> 10
                                 [] OTHER                -> 0]
      [] fn = "apply_volume_discount"   ->
            [quantity |-> inputs.quantity, discount_rate |-> VolumeRate(inputs.quantity)]
      [] fn = "apply_promo_code"        ->
            IF CodeUpper(inputs.promo_code) \in DOMAIN PromoCodes
            THEN [promo_code |-> CodeUpper(inputs.promo_code), valid |-> TRUE]
            ELSE [promo_code |-> inputs.promo_code, valid |-> FALSE,
                  error |-> "Invalid promo code"]
      [] fn = "calculate_sales_tax"     -> [state |-> inputs.state]
      [] fn = "calculate_shipping_cost" ->
            [express |-> inputs.express, free_shipping |-> TRUE]
      [] fn = "calculate_final_total"   -> [tip_percent |-> inputs.tip_percent]

\* The "step" of the early return that follows the step fn, None when
\* process_checkout goes on after it.
StopName(fn, result) ==
    CASE fn = "validate_user_type" /\ ~result.valid  -> "user_validation"
      [] fn = "get_product_details" /\ ~result.found -> "product_lookup"
      [] fn = "check_stock" /\ ~result.available     -> "stock_check"
      [] fn = "reserve_stock" /\ ~result.success     -> "reservation"
      [] OTHER                                       -> None

\* The step after step n: apply_promo_code is left out when no promo code is given.
NextPc(n, a) ==
    IF n < Len(CheckoutOrder) /\ CheckoutOrder[n + 1] = "apply_promo_code"
          /\ a.promo_code = ""
    THEN n + 2
    ELSE n + 1

\* Requests of POST /checkout/full (quantity >= 1, main.py:54) and direct calls
\* of process_checkout.
CheckoutCases ==
    { c \in [product_id : {"LAPTOP-001", "DESK-001"}, quantity : {0, 1, 25, 26},
             user_type : {"premium", "admin"}, state : {"CA"},
             promo_code : {"", "FLAT50", "BOGUS"}, express : {FALSE},
             via : {"handler", "direct"}] :
         c.via = "handler" => c.quantity >= 1 }

\* run_full_checkout: clear_traces(), then process_checkout starts.
ApplyCheckoutStart ==
    /\ phase = "input"
    /\ op = "process_checkout"
    /\ TRACE' = IF arg.via = "handler" THEN ClearTraces(TRACE) ELSE TRACE
    /\ out' = [pc |-> 1, status |-> "running", ret |-> None, exc |-> None,
               tier |-> 0, current_stock |-> 0, approved |-> 0,
               promo_applied |-> FALSE, traces |-> <<>>]
    /\ phase' = "steps"
    /\ UNCHANGED <<op, arg, now>>
    /\ ApplyIdle

\* One step of process_checkout: the wrapped call appends its record, then
\* process_checkout returns early, raises KeyError on
\* quantity_validation["approved"], returns the order, or goes on.
ApplyCheckoutStep ==
    /\ phase = "steps"
    /\ op = "process_checkout"
    /\ out.status = "running"
    /\ LET fn     == CheckoutOrder[out.pc]
           inputs == CheckoutInputs(fn, arg, out)
           result == CheckoutResult(fn, inputs)
           stop   == StopName(fn, result)
           raises == fn = "validate_quantity" /\ "approved" \notin DOMAIN result
           locals == CASE fn = "validate_user_type" -> [out EXCEPT !.tier = result.tier]
                       [] fn = "check_stock"        ->
                             [out EXCEPT !.current_stock = result.current_stock]
                       [] fn = "validate_quantity"  ->
                             [out EXCEPT !.approved = result.approved]
                       [] fn = "apply_promo_code"   ->
                             [out EXCEPT !.promo_applied = result.valid]
                       [] OTHER                     -> out
       IN  /\ TRACE' = Append(TRACE, FullRecord(fn, inputs, result, now, now, None))
           /\ out' = IF raises
                     THEN [out EXCEPT !.status = "raised", !.exc = "KeyError"]
                     ELSE IF stop # None
                     THEN [out EXCEPT !.status = "returned",
                                      !.ret = [success |-> FALSE, step |-> stop]]
                     ELSE IF out.pc = Len(CheckoutOrder)
                     THEN [out EXCEPT !.status = "returned",
                                      !.ret = [success |-> TRUE,
                                               promo_applied |-> out.promo_applied]]
                     ELSE [locals EXCEPT !.pc = NextPc(out.pc, arg)]
           /\ phase' = IF raises THEN "output" ELSE "steps"
    /\ UNCHANGED <<op, arg, now>>
    /\ ApplyIdle

\* process_checkout has returned: traces = pop_traces().
ApplyCheckoutDrain ==
    /\ phase = "steps"
    /\ op = "process_checkout"
    /\ out.status = "returned"
    /\ TRACE' = PopTraces(TRACE).store
    /\ out' = [out EXCEPT !.traces = PopTraces(TRACE).returned]
    /\ phase' = "output"
    /\ UNCHANGED <<op, arg, now>>
    /\ ApplyIdle

\* Records handed to explain_single_trace: fresh from the store, or explained before.
ExplainRecords ==
    { FullRecord("check_stock",
                 [product_id |-> "LAPTOP-001", requested_quantity |-> "5"],
                 "{'available': True}", 0, 1, e) : e \in {None, "old text"} }
    \cup
    { FullRecord("validate_user_type", [user_type |-> "premium"],
                 "{'valid': True}", 2, 2, None) }
ExplainCases ==
    [trace : ExplainRecords, ds : Outcomes \cup {"no_key"}, or : Outcomes]

\* explain_single_trace(arg.trace) with the providers answering arg.ds, arg.or.
ApplyExplain ==
    /\ phase = "input"
    /\ op = "explain_single_trace"
    /\ TRACE' = PromptCall(TRACE, arg.trace, 2, "-").store
    /\ out' = <<ExplainSingleTrace(arg.trace, arg.ds, arg.or)>>
    /\ phase' = "again"
    /\ UNCHANGED <<op, arg, now>>
    /\ ApplyIdle

\* explain_single_trace on the record it returned, the providers answering alike.
ApplyExplainAgain ==
    /\ phase = "again"
    /\ op = "explain_single_trace"
    /\ TRACE' = PromptCall(TRACE, out[1], 3, "-").store
    /\ out' = Append(out, ExplainSingleTrace(out[1], arg.ds, arg.or))
    /\ phase' = "output"
    /\ UNCHANGED <<op, arg, now>>
    /\ ApplyIdle

\* The inputs each function is applied to.
ApplyCases(f) ==
    CASE f = "bind" -> BindCases
      [] f = "build_explain_file" -> RenderCases
      [] f = "get_traces" -> Batches
      [] f = "explain_single_trace" -> ExplainCases
      [] f = "wrapped_call" -> WrapCases
      [] f = "signature_call" -> SigCases
      [] f = "process_checkout" -> CheckoutCases
      [] f = "pop_traces" -> Batches
      [] f = "build_unexplained" -> FreshCases

ApplyFns ==
    {"bind", "build_explain_file", "get_traces", "explain_single_trace", "wrapped_call",
     "signature_call", "process_checkout", "pop_traces", "build_unexplained"}

NextApply ==
    \/ ApplyBind
    \/ Tick
    \/ ApplyBuild
    \/ ApplyBuildAgain
    \/ ApplyGet
    \/ ApplyEdit
    \/ ApplyExplain
    \/ ApplyExplainAgain
    \/ ApplyWrapStart
    \/ ApplyWrapEnd
    \/ ApplySigCall
    \/ ApplyCheckoutStart
    \/ ApplyCheckoutStep
    \/ ApplyCheckoutDrain
    \/ ApplyStoreStart
    \/ ApplyStorePop
    \/ ApplyStoreAppend
    \/ ApplyStoreClear
    \/ ApplyBuildFresh

(***************************************************************************)
(* Specifications                                                          *)
(***************************************************************************)
\* The process after import: TRACE = [] (explainx.py:12), nothing running.
InitStore == TRACE = <<>> /\ InitCalls /\ InitThreads /\ InitTasks

\* No single function is under application.
InitIdle == op = None /\ arg = <<>> /\ out = <<>> /\ phase = "idle" /\ now = 0

\* No key in the environment; the providers are not reached in this run.
InitDriver == InitStore /\ InitIdle /\ deepseekKey = FALSE /\ env = AnyOutcome

\* One function and one input for it are chosen.
InitApply ==
    /\ InitStore /\ deepseekKey = FALSE /\ env = AnyOutcome
    /\ phase = "input"
    /\ out = <<>>
    /\ now \in Clock
    /\ \E f \in ApplyFns : op = f /\ arg \in ApplyCases(f)

SpecApply ==
    /\ InitApply
    /\ [][NextApply]_vars

SpecCalls ==
    /\ InitDriver
    /\ [][NextCalls]_vars

SpecThreads ==
    /\ InitDriver
    /\ [][NextThreads]_vars

\* DEEPSEEK_API_KEY = os.getenv("DEEPSEEK_API_KEY", ""): set or empty.
InitExplain == InitStore /\ InitIdle /\ deepseekKey \in BOOLEAN /\ env = AnyOutcome

SpecExplain ==
    /\ InitExplain
    /\ [][NextExplain]_vars

InitServer ==
    /\ InitStore
    /\ InitIdle
    /\ \E c \in ServerConfigs : deepseekKey = c.key /\ env = [ds |-> c.ds, or |-> c.or]

SpecServer ==
    /\ InitServer
    /\ [][NextServer]_vars

(***************************************************************************)
(* Properties of the interceptor and the store (SpecCalls)                 *)
(***************************************************************************)
Ids(s) == [i \in 1..Len(s) |-> s[i].id]

\* Invocation a is a direct or indirect caller of invocation b.
RECURSIVE IsAncestor(_, _)
IsAncestor(a, b) == b # 0 /\ (parents[b] = a \/ IsAncestor(a, parents[b]))

IsPrefix(s, t) == Len(s) <= Len(t) /\ SubSeq(t, 1, Len(s)) = s

\* C1 as stated: after N invocations that all completed, starting from an empty
\* store, pop_traces returns N records in the order in which the calls were
\* invoked, and a pop_traces right after it returns the empty list.
C1_InvocationOrder ==
    /\ (popStreak = 1 /\ ~drained.raised) =>
          /\ Len(lastPop) = Len(drained.began)
          /\ Ids(lastPop) = drained.began
    /\ popStreak = 2 => lastPop = <<>>

\* C1 amended: pop_traces returns exactly one record per completed invocation, in
\* the order in which the calls returned: of two records the earlier one was
\* invoked first unless the later one is a caller of the earlier one; a pop_traces
\* right after it returns the empty list.
C1_CompletionOrder ==
    /\ popStreak = 1 =>
          /\ Ids(lastPop) = drained.done
          /\ ~drained.raised => Len(lastPop) = Len(drained.began)
          /\ \A i, j \in 1..Len(lastPop) :
                i < j => \/ lastPop[i].id < lastPop[j].id
                         \/ IsAncestor(lastPop[j].id, lastPop[i].id)
    /\ popStreak = 2 => lastPop = <<>>

\* Two pops in a row after a complete, nested process_applications run.
C1_Witness ==
    /\ popStreak = 2
    /\ lastPop = <<>>
    /\ Len(prevPop) >= 6
    /\ \E i \in 1..Len(prevPop) : prevPop[i].function = "process_applications"

\* C5 as stated: when the wrapped callable raises, the store is exactly as it was
\* before the invocation and the same exception reaches the caller.
C5_StoreUntouched ==
    last.outcome = "raised" =>
        /\ last.after = last.before
        /\ last.exc = last.raised

\* C5 amended: when the wrapped callable raises, no record is appended for that
\* invocation: the store is the store before the invocation followed only by the
\* records of the instrumented calls nested in it that returned; the same
\* exception reaches the caller.
C5_NoOwnRecord ==
    last.outcome = "raised" =>
        /\ IsPrefix(last.before, last.after)
        /\ \A i \in 1..Len(last.after) :
              /\ last.after[i].id # last.id
              /\ i > Len(last.before) => IsAncestor(last.id, last.after[i].id)
        /\ last.raised # None
        /\ last.exc = last.raised

\* process_applications raised after three of its instrumented calls returned.
C5_Witness ==
    /\ last.outcome = "raised"
    /\ last.function = "process_applications"
    /\ Len(last.after) = Len(last.before) + 3

\* C6 as stated: a successful invocation calls C once, returns C's value and
\* changes the store only by appending one record at the tail.
C6_OneRecordOnly ==
    last.outcome = "returned" =>
        /\ last.calls = 1
        /\ last.ret = last.result
        /\ last.after = Append(last.before, last.after[Len(last.after)])

\* C6 amended: a successful invocation calls C once, returns C's value, leaves
\* the records already in the store unchanged and appends, after the records of
\* the instrumented calls C itself made, exactly one record of its own at the
\* tail: C's name, the bound inputs, the returned value, a null explanation.
C6_OwnRecordAtTail ==
    last.outcome = "returned" =>
        /\ last.calls = 1
        /\ last.ret = last.result
        /\ IsPrefix(last.before, last.after)
        /\ Len(last.after) > Len(last.before)
        /\ LET n == Len(last.after)
               r == last.after[n]
           IN  /\ r.id = last.id
               /\ r.function = last.function
               /\ r.inputs = BindInputs(Params(last.function), last.args, last.kwargs)
               /\ r.output = last.ret
               /\ r.explanation = None
               /\ \A i \in 1..(n - 1) :
                     /\ last.after[i].id # last.id
                     /\ i > Len(last.before) => IsAncestor(last.id, last.after[i].id)

\* process_applications returned: five records of its calls, then its own.
C6_Witness ==
    /\ last.outcome = "returned"
    /\ last.function = "process_applications"
    /\ Len(last.after) = Len(last.before) + 6
    /\ Len(last.before) > 0

(***************************************************************************)
(* Properties of single functions (SpecApply)                              *)
(***************************************************************************)
Applied(f) == op = f /\ phase = "output"

\* C12: the recorded inputs map the i-th declared parameter to the i-th
\* positional argument and each supplied name to its named value, a named
\* argument winning on a key both supply; (a, b) plus {c: v} against (x, y, c)
\* gives {x: a, y: b, c: v}.
C12_InputsBound ==
    Applied("bind") =>
        LET n == Min(Len(arg.args), Len(arg.params))
        IN  /\ DOMAIN out = {arg.params[i] : i \in 1..n} \cup DOMAIN arg.kwargs
            /\ \A k \in DOMAIN arg.kwargs : out[k] = arg.kwargs[k]
            /\ \A i \in 1..n :
                  arg.params[i] \notin DOMAIN arg.kwargs => out[arg.params[i]] = arg.args[i]
            /\ (/\ arg.params = <<"x", "y", "c">>
                /\ arg.args = <<"a", "b">>
                /\ DOMAIN arg.kwargs = {"c"})
                  => out = [x |-> "a", y |-> "b", c |-> "v"]

\* The call of the example with x also given by name: the named x wins.
C12_Witness ==
    /\ Applied("bind")
    /\ arg.params = <<"x", "y", "c">>
    /\ arg.args = <<"a", "b">>
    /\ DOMAIN arg.kwargs = {"c", "x"}
    /\ out = [x |-> "v", y |-> "b", c |-> "v"]

\* The lines of a report that open a record.
RecordHeads(text) == SelectSeq(text, LAMBDA l : Len(l) = 4 /\ l[1] = "[")

\* C13: build_explain_file is a function of its input sequence: two calls with
\* the same sequence give the same text, the records are numbered 1..N in input
\* order, and the report of the empty sequence is the header and the footer.
C13_RenderDeterministic ==
    Applied("build_explain_file") =>
        /\ out[1] = out[2]
        /\ Len(RecordHeads(out[1])) = Len(arg)
        /\ \A i \in 1..Len(arg) :
              RecordHeads(out[1])[i] = <<"[", i, "] Function: ", arg[i].function>>
        /\ arg = <<>> => out[1] = Header \o Footer

\* Two reports of the same two records, built at different times.
C13_Witness ==
    /\ Applied("build_explain_file")
    /\ Len(arg) = 2
    /\ arg[1] # arg[2]
    /\ Len(out) = 2
    /\ now = 2

\* C14: get_traces returns the records of the store in store order and leaves
\* the store as it is; whatever is then added to, removed from or reordered in
\* the returned list, a later get_traces or pop_traces returns the same records.
C14_PeekIsCopy ==
    (op = "get_traces" /\ phase \in {"got", "output"}) =>
        /\ TRACE = arg
        /\ phase = "got" => out.heap[out.got] = arg
        /\ LET g == GetTraces(out.heap, out.trace)
           IN  g.heap[g.ref] = arg
        /\ PopTraces(TRACE).returned = arg

\* The returned list of two records was changed by its caller.
C14_Witness ==
    /\ Applied("get_traces")
    /\ Len(arg) = 2
    /\ out.heap[out.got] # arg

C16_DurationNonNegative ==
    op = "wrapped_call" =>
        \A i \in 1..Len(TRACE) :
            /\ TRACE[i].end_time >= TRACE[i].start_time
            /\ TRACE[i].duration_ms >= 0
            /\ TRACE[i].duration_ms = TRACE[i].end_time - TRACE[i].start_time

\* C18: for a product of INVENTORY with stock s and a quantity q <= s, check_stock
\* returns available = true and remaining_after = s - q (20 for LAPTOP-001 and 5),
\* and the call through the interceptor appends one record with the inputs
\* {product_id, requested_quantity} as supplied and an output with available =
\* true; for q > s it returns available = false and shortage = q - s.
C18_CheckStock ==
    (Applied("wrapped_call") /\ arg.call.function = "check_stock") =>
        LET c  == arg.call
            p  == IF c.args = <<>> THEN c.kwargs.product_id ELSE c.args[1]
            q  == IF c.args = <<>> THEN c.kwargs.requested_quantity ELSE c.args[2]
            id == Upper(p)
        IN  id \in DOMAIN Inventory =>
               /\ out.ret = out.result
               /\ Len(TRACE) = 1
               /\ TRACE[1].function = "check_stock"
               /\ TRACE[1].inputs = [product_id |-> p, requested_quantity |-> q]
               /\ TRACE[1].output = out.result
               /\ q <= Inventory[id] =>
                     /\ out.result.available
                     /\ out.result.remaining_after = Inventory[id] - q
               /\ (id = "LAPTOP-001" /\ q = 5) => out.result.remaining_after = 20
               /\ q > Inventory[id] =>
                     /\ ~out.result.available
                     /\ out.result.shortage = q - Inventory[id]

\* check_stock("LAPTOP-001", 25) through the interceptor: the whole stock.
C18_Witness ==
    /\ Applied("wrapped_call")
    /\ arg.call.function = "check_stock"
    /\ arg.call.args = <<"LAPTOP-001", 25>>
    /\ Len(TRACE) = 1
    /\ TRACE[1].output.available
    /\ TRACE[1].output.remaining_after = 0

\* The call of signature_call was accepted and left its record.
SigRecorded == Applied("signature_call") /\ Len(TRACE) = 1

\* The declared parameter names an accepted call supplies.
Supplied(sig, args, kwargs) ==
    {sig.plain[i] : i \in 1..Min(Len(args), Len(sig.plain))}
    \cup (DOMAIN kwargs \cap Range(sig.plain))
    \cup (IF sig.varpos /\ Len(args) > Len(sig.plain) THEN {"rest"} ELSE {})
    \cup (IF sig.varkw /\ ~(DOMAIN kwargs \subseteq Range(sig.plain))
          THEN {"extra"} ELSE {})

\* C21: the keys of the recorded inputs are exactly the declared parameter names
\* the invocation supplied: every key is a declared parameter name, and no
\* supplied argument is missing, the positional arguments beyond the declared
\* positional parameters included.
C21_InputKeysSupplied ==
    SigRecorded =>
        LET sig    == arg.sig
            inputs == TRACE[1].inputs
            np     == Len(sig.plain)
        IN  /\ DOMAIN inputs \subseteq Range(SigParams(sig))
            /\ DOMAIN inputs = Supplied(sig, arg.args, arg.kwargs)
            /\ \A i \in 1..Min(Len(arg.args), np) : inputs[sig.plain[i]] = arg.args[i]
            /\ \A k \in DOMAIN arg.kwargs \cap Range(sig.plain) : inputs[k] = arg.kwargs[k]
            /\ Len(arg.args) > np =>
                  inputs["rest"] = SubSeq(arg.args, np + 1, Len(arg.args))

\* For a callable without *rest and **extra, as every callable the repository
\* decorates, the keys are the supplied parameter names and each has its value.
PlainInputKeysSupplied ==
    (SigRecorded /\ ~arg.sig.varpos /\ ~arg.sig.varkw) =>
        LET sig    == arg.sig
            inputs == TRACE[1].inputs
        IN  /\ DOMAIN inputs = Supplied(sig, arg.args, arg.kwargs)
            /\ \A i \in 1..Len(arg.args) : inputs[sig.plain[i]] = arg.args[i]
            /\ \A k \in DOMAIN arg.kwargs : inputs[k] = arg.kwargs[k]

\* A call with unfitting arguments raises and leaves no record.
RejectedLeavesNothing ==
    (Applied("signature_call") /\ ~Accepts(arg.sig, arg.args, arg.kwargs)) =>
        TRACE = <<>> /\ out.exc = "TypeError"

\* The records of a list that have no explanation: no key, or the value None.
Unexplained(tr) ==
    { i \in 1..Len(tr) : "explanation" \notin DOMAIN tr[i] \/ tr[i].explanation = None }

\* The lines of a report that say that there is no explanation.
NoExplanationLines(text) ==
    SelectSeq(text, LAMBDA l : l = <<"       ", "No explanation available">>)

\* C25: build_explain_file does not fail on records that were not explained:
\* for each record whose explanation is absent or None the explanation
\* section of the report reads "No explanation available".
C25_UnexplainedRendered ==
    Applied("build_unexplained") =>
        /\ out.exc = None
        /\ Len(NoExplanationLines(out.text)) = Cardinality(Unexplained(arg))

\* What holds: a record without the key gets the text; a record whose
\* explanation is None, as the wrapper appends it, makes the call raise.
AbsentRenderedNullRaises ==
    Applied("build_unexplained") =>
        IF \E i \in 1..Len(arg) : "explanation" \in DOMAIN arg[i] /\ arg[i].explanation = None
        THEN out.exc = "AttributeError"
        ELSE /\ out.exc = None
             /\ Len(NoExplanationLines(out.text)) = Cardinality(Unexplained(arg))

\* C23: a list returned by pop_traces() is detached from the store: the
\* appends, clear_traces() and pop_traces() calls that follow never add,
\* remove or reorder its elements.
C23_PopSnapshotDetached ==
    (op = "pop_traces" /\ phase = "steps") =>
        /\ \A i \in 1..Len(out.held) : out.heap[out.held[i]] = out.snaps[i]
        /\ \A i \in 1..Len(out.held) : out.held[i] # out.store

\* A drained list of one record, then an append, a clear and a second drain.
C23_Witness ==
    /\ op = "pop_traces"
    /\ phase = "steps"
    /\ out.log = <<"pop", "append", "clear", "pop">>
    /\ Len(out.heap[out.held[1]]) = 1
    /\ out.heap[out.held[2]] = <<>>

\* process_checkout is over: it returned and the traces were drained, or it raised.
CheckoutOver == Applied("process_checkout")

\* The records process_checkout left: drained by pop_traces(), or still in the
\* store when it raised.
CheckoutTraces == IF out.status = "returned" THEN out.traces ELSE TRACE

FunctionNames(trs) == [i \in 1..Len(trs) |-> trs[i].function]

\* The order of the steps for these arguments.
ExpectedOrder(a) ==
    SelectSeq(CheckoutOrder, LAMBDA f : f # "apply_promo_code" \/ a.promo_code # "")

\* The result of a step says that the step failing.
ReportsFailure(result) ==
    \/ "valid" \in DOMAIN result /\ ~result.valid
    \/ "found" \in DOMAIN result /\ ~result.found
    \/ "available" \in DOMAIN result /\ result.available = FALSE
    \/ "success" \in DOMAIN result /\ ~result.success

\* C22: process_checkout calls the instrumented functions in the fixed order,
\* apply_promo_code only when a promo code is given; when a step reports failure
\* it returns success = false naming that step and calls no later function;
\* the traces of a checkout are a prefix of the order.
C22_CheckoutOrder ==
    CheckoutOver =>
        LET names == FunctionNames(CheckoutTraces)
            failing == { i \in 1..Len(CheckoutTraces) :
                           ReportsFailure(CheckoutTraces[i].output) }
        IN  /\ IsPrefix(names, ExpectedOrder(arg))
            /\ \A i \in failing :
                  /\ i = Len(CheckoutTraces)
                  /\ out.status = "returned"
                  /\ out.ret.success = FALSE
                  /\ out.ret.step = StopName(names[i], CheckoutTraces[i].output)
            /\ failing = {} =>
                  /\ out.status = "returned"
                  /\ out.ret.success = TRUE
                  /\ names = ExpectedOrder(arg)

\* The part of C22 that holds: the traces are a prefix of the order; a failure
\* of validate_user_type, get_product_details, check_stock or reserve_stock ends
\* the checkout with success = false and the name of the step; a returned
\* success = true comes with the traces of the whole order.
CheckoutStopsAtGuards ==
    CheckoutOver =>
        LET names == FunctionNames(CheckoutTraces)
            n     == Len(names)
        IN  /\ IsPrefix(names, ExpectedOrder(arg))
            /\ \A i \in 1..n :
                  StopName(names[i], CheckoutTraces[i].output) # None =>
                     /\ i = n
                     /\ out.status = "returned"
                     /\ out.ret = [success |-> FALSE,
                                   step |-> StopName(names[i], CheckoutTraces[i].output)]
            /\ (out.status = "returned" /\ out.ret.success) => names = ExpectedOrder(arg)
            /\ out.status = "raised" => arg.via = "direct" /\ arg.quantity <= 0

\* A request through the handler always ends with a returned result.
HandlerCheckoutReturns ==
    (CheckoutOver /\ arg.via = "handler") => out.status = "returned" /\ TRACE = <<>>

\* The wrapped apply_promo_code has returned.
PromoApplied == Applied("wrapped_call") /\ arg.call.function = "apply_promo_code"

\* A known code applied to a subtotal strictly below its minimum purchase is
\* refused: valid false, no discount, final_price the subtotal.
RefusedBelowMinimum ==
    PromoApplied =>
        LET price == arg.call.kwargs.price
            code  == CodeUpper(arg.call.kwargs.promo_code)
            r     == out.result
        IN  (code \in DOMAIN PromoCodes
                /\ price < Dollars(PromoCodes[code].min_purchase, 0)) =>
               /\ out.ret = r
               /\ r.valid = FALSE
               /\ r.discount_applied = 0
               /\ r.final_price = price
               /\ (code = "FLAT50" /\ price = Dollars(80, 0)) =>
                      r.final_price = Dollars(80, 0)

\* C19 as stated: a known promo code on a subtotal strictly below its minimum
\* purchase gives valid = false, discount_applied = 0 and final_price = the
\* subtotal; FLAT50 on a subtotal >= 100 gives valid = true, discount_applied =
\* 50 and final_price = subtotal - 50, never below 0.
C19_PromoExact ==
    /\ RefusedBelowMinimum
    /\ PromoApplied =>
          LET price == arg.call.kwargs.price
              r     == out.result
          IN  (CodeUpper(arg.call.kwargs.promo_code) = "FLAT50"
                  /\ price >= Dollars(100, 0)) =>
                 /\ r.valid = TRUE
                 /\ r.discount_applied = Dollars(50, 0)
                 /\ r.final_price = price - Dollars(50, 0)
                 /\ r.final_price >= 0

\* C19, amended: as stated, except that for FLAT50 on a subtotal >= 100 the
\* final_price is subtotal - 50 rounded to the nearest cent: a whole number of
\* cents at most half a cent away from subtotal - 50, and equal to subtotal - 50
\* when the subtotal is a whole number of cents.
C19_PromoRounded ==
    /\ RefusedBelowMinimum
    /\ PromoApplied =>
          LET price == arg.call.kwargs.price
              r     == out.result
              diff  == r.final_price - (price - Dollars(50, 0))
          IN  (CodeUpper(arg.call.kwargs.promo_code) = "FLAT50"
                  /\ price >= Dollars(100, 0)) =>
                 /\ r.valid = TRUE
                 /\ r.discount_applied = Dollars(50, 0)
                 /\ r.final_price % 100 = 0
                 /\ -50 <= diff /\ diff <= 50
                 /\ price % 100 = 0 => diff = 0
                 /\ r.final_price >= 0

\* FLAT50 on 100.004 through the interceptor: accepted, final_price 50.00.
C19_Witness ==
    /\ PromoApplied
    /\ arg.call.kwargs = [price |-> Dollars(100, 40), promo_code |-> "FLAT50"]
    /\ out.result.valid
    /\ out.result.discount_applied = Dollars(50, 0)
    /\ out.result.final_price = Dollars(50, 0)
    /\ Len(TRACE) = 1

\* C20: when the source text or the file of the callable cannot be retrieved, the
\* wrapper still appends the record, with the placeholder "source unavailable"
\* as source text, and returns the result of the callable without raising.
C20_CaptureFailureHidden ==
    (Applied("wrapped_call") /\ (arg.source # "ok" \/ arg.file # "ok")) =>
        /\ out.exc = None
        /\ out.ret = out.result
        /\ Len(TRACE) = 1
        /\ TRACE[1].code = "source unavailable"

\* The part of C20 that does not depend on the wording of the placeholder.
CaptureFailureRecovered ==
    (Applied("wrapped_call") /\ (arg.source # "ok" \/ arg.file # "ok")) =>
        /\ out.exc = None
        /\ out.ret = out.result
        /\ Len(TRACE) = 1
        /\ TRACE[1].code = "Source code not available"

(***************************************************************************)
(* Properties of the handlers (SpecServer)                                 *)
(***************************************************************************)
Handlers == {"simple", "full", "resume"}
Popped(t) == kind[t] \in Handlers /\ pc[t] \in {"deepseek", "openrouter", "done", "failed"}

\* C2: the list a handler obtains from pop_traces holds the records of the
\* instrumented calls made for that request, all of them and no others.
C2_RequestIsolation ==
    \A t \in Tasks :
        Popped(t) =>
            /\ \A i \in 1..Len(traces[t]) : traces[t][i].req = t
            /\ IdSet(traces[t]) = ownIds[t]

\* The handler of request t is over after its traces were drained: it returned
\* its response ("done") or build_explain_file raised ("failed").
Answered(t) == kind[t] \in {"simple", "full", "resume"} /\ pc[t] \in {"done", "failed"}

\* C24: every request whose pipeline ran ends with a response in which every
\* returned trace has a non-null explanation and the report is rendered,
\* whatever the providers answer.
C24_ResponseExplained ==
    \A t \in Tasks :
        Answered(t) =>
            /\ pc[t] = "done"
            /\ \A i \in 1..Len(traces[t]) : traces[t][i].explanation # None

\* The same when no provider answers with content that is not text.
TextResponsesExplained ==
    \A t \in Tasks :
        (Answered(t) /\ "content_not_text" \notin env.ds \cup env.or) =>
            /\ pc[t] = "done"
            /\ \A i \in 1..Len(traces[t]) : IsStr(traces[t][i].explanation)

\* No explanation is ever left null once the pass over the list is over.
NoNullExplanation ==
    \A t \in Tasks :
        Answered(t) => \A i \in 1..Len(traces[t]) : traces[t][i].explanation # None

\* C11: from a handler's pop_traces to the end of the request the explanation of
\* each drained record is assigned at most once, and it is null until then.
C11_ExplanationWrittenOnce ==
    \A t \in Tasks :
        Popped(t) =>
            \A i \in 1..Len(traces[t]) :
                /\ traces[t][i].writes <= 1
                /\ traces[t][i].writes = 0 => traces[t][i].explanation = None

\* A handler ended with several records, some explained while others waited.
C11_Witness ==
    \E t \in Tasks :
        /\ kind[t] \in Handlers
        /\ pc[t] = "done"
        /\ Len(traces[t]) >= 4
        /\ \A i \in 1..Len(traces[t]) :
              traces[t][i].writes = 1 /\ traces[t][i].explanation # None

(***************************************************************************)
(* Properties of the explanation chain (SpecExplain)                       *)
(***************************************************************************)
\* C7: explain_traces returns for every batch of interceptor records and every
\* provider outcome, and every returned record has an explanation.
C7_ExplainTotal ==
    \A t \in Tasks :
        kind[t] = "batch" =>
            /\ pc[t] # "raised"
            /\ pc[t] = "returned" =>
                  \A i \in 1..Len(traces[t]) : traces[t][i].explanation # None

\* A post that ended with status 200 and a text in the content field.
GaveTextPayload(o) == o \in {"content_text", "content_empty"}
Explained(t) == lastLog[t].n > 0

\* C8 as stated: DeepSeek first, then OpenRouter, first success wins: when
\* DeepSeek succeeds its text is the explanation and OpenRouter is not called;
\* OpenRouter is called only after DeepSeek failed; the fallback is used only
\* after both failed.
C8_FirstSuccessWins ==
    \A t \in Tasks :
        /\ pc[t] = "deepseek" => log[t].or = "not_called"
        /\ Explained(t) =>
              /\ lastLog[t].ds # "pending"
              /\ GaveTextPayload(lastLog[t].ds) =>
                    /\ lastLog[t].explanation = ProviderReturn("deepseek", lastLog[t].ds)
                    /\ lastLog[t].or = "not_called"
              /\ lastLog[t].or # "not_called" => ~GaveTextPayload(lastLog[t].ds)
              /\ lastLog[t].fallback =>
                    /\ ~GaveTextPayload(lastLog[t].ds)
                    /\ ~GaveTextPayload(lastLog[t].or)

\* A provider that yielded nothing usable: no key, a failure, or an empty text.
YieldedNothing(o) == o \in Failures \cup {"no_key", "content_empty"}

\* C8 amended: DeepSeek first, then OpenRouter, the first non-empty result wins:
\* when DeepSeek returns a non-empty text it is the explanation and OpenRouter is
\* not called; OpenRouter is called only after DeepSeek yielded nothing (no key,
\* a failure or an empty text); the fallback is used only after both yielded
\* nothing.
C8_FirstTextWins ==
    \A t \in Tasks :
        /\ pc[t] = "deepseek" => log[t].or = "not_called"
        /\ pc[t] = "openrouter" => YieldedNothing(log[t].ds)
        /\ Explained(t) =>
              /\ lastLog[t].ds # "pending"
              /\ lastLog[t].ds = "content_text" =>
                    /\ lastLog[t].explanation = ProviderText("deepseek")
                    /\ lastLog[t].or = "not_called"
                    /\ ~lastLog[t].fallback
              /\ lastLog[t].or # "not_called" <=> YieldedNothing(lastLog[t].ds)
              /\ Truthy(lastLog[t].explanation)
              /\ lastLog[t].or = "content_text" =>
                    lastLog[t].explanation = ProviderText("openrouter")
              /\ lastLog[t].fallback <=>
                    /\ YieldedNothing(lastLog[t].ds)
                    /\ YieldedNothing(lastLog[t].or)
              /\ lastLog[t].fallback =>
                    lastLog[t].explanation = GenerateFallback(traces[t][lastLog[t].n])

\* DeepSeek answered with an empty text, OpenRouter with a text.
C8_Witness ==
    \E t \in Tasks :
        /\ Explained(t)
        /\ lastLog[t].ds = "content_empty"
        /\ lastLog[t].or = "content_text"
        /\ lastLog[t].explanation = ProviderText("openrouter")

\* The remote failures of one post: a transport error, a timeout, a status other
\* than 200, a body that is not the expected JSON with a text in content.
RemoteFailures == Failures \cup {"content_not_text"}

\* C9: every remote failure counts as "provider failed": the record is left as
\* it was and the next provider is tried; no provider is tried twice for a
\* record, so a batch of N records costs at most 2N posts.
C9_FailuresNormalized ==
    \A t \in Tasks :
        /\ log[t].ds \in RemoteFailures =>
              /\ pc[t] = "openrouter"
              /\ traces[t][idx[t]].explanation = None
        /\ Explained(t) =>
              /\ lastLog[t].ds \in RemoteFailures => lastLog[t].or # "not_called"
              /\ lastLog[t].or \in RemoteFailures => lastLog[t].fallback
        /\ attempts[t] <= 2 * Len(traces[t])

\* The part of C9 that does not depend on how a failure is recognised: at most
\* two posts per record.
AttemptsBounded ==
    \A t \in Tasks :
        attempts[t] <= 2 * Len(traces[t])

\* C10: building the prompt changes nothing: the store is, during and after an
\* explanation pass, what it was when the pass started.
C10_PromptPure ==
    \A t \in Tasks :
        (kind[t] = "batch" /\ pc[t] # "new") => TRACE = startStore[t]

====
